---- MODULE Spec2Model ----
(***************************************************************************)
(* A model of the evaluation core of the Email QA platform                 *)
(* (src/backend): the deterministic rule runner, the risk scoring          *)
(* aggregator, the overall-status decision, the fix-suggestion generator   *)
(* and the supervisor's top-issue view.                                    *)
(*                                                                         *)
(* Numbers.  The program computes with floats.  The model computes with    *)
(* exact fractions <<numerator, denominator>>; a value the program rounds  *)
(* to two decimals (round(x, 2)) is an integer number of hundredths, so    *)
(* the score 47.5 is 4750 and the score 100 is 10000.  Rule weights are    *)
(* whole numbers of the 0..100 scale; the raw accumulators                 *)
(* (deterministic_score, deterministic_max, ...) are kept in hundredths,   *)
(* which makes (weight / 100) * severity_weight the integer                *)
(* weight * severity_weight.                                               *)
(*                                                                         *)
(* Dictionaries are functions with a string domain; d.get(k, default) is   *)
(* Get(d, k, default).  A raised exception is the value of `raised`.       *)
(***************************************************************************)
EXTENDS Integers, Sequences, FiniteSets, TLC

VARIABLES
    html_content,           \* the markup handed to the evaluation (abstracted)
    metadata,               \* the metadata mapping handed to the evaluation
    deterministic_results,  \* list of {test_name, status, details}
    compliance_results,     \* the compliance evaluator's result: issues
    tone_results,           \* the tone evaluator's result: issues
    accessibility_results,  \* the accessibility evaluator's result: issues
    rule_weights,           \* RiskScoringAgent.rule_weights
    risk_locals,            \* calculate_risk's locals before rounding
    risk_results,           \* the RiskResult returned by calculate_risk
    overall_status,         \* SupervisorAgent._determine_overall_status(...)
    report_status,          \* AgentOrchestrator._calculate_overall_status(...)
    fix_suggestions,        \* FixSuggestionAgent.generate_fixes(...)
    top_issues,             \* SupervisorAgent._extract_top_issues(...)
    raised,                 \* "none", or the exception the operation raised
    pc,                     \* "boot", "idle", "running" or "input", then "done"
    rule_store,             \* the RuleConfiguration table: name -> weight
    brand_source,           \* config/brand_rules.yaml: its content, or "absent"
    brand_rules,            \* ComplianceAgent.brand_rules
    started_with,           \* rule_store as it was when the evaluation started
    hash_seed,              \* the process's iteration order of a set of strings
    pending,                \* the evaluators that have not run yet
    reports                 \* the reports run_qa_process returned so far

vars == <<html_content, metadata, deterministic_results, compliance_results,
          tone_results, accessibility_results, rule_weights, risk_locals,
          risk_results, overall_status, report_status, fix_suggestions,
          top_issues, raised, pc,
         rule_store, brand_source, brand_rules, started_with, hash_seed,
         pending, reports>>

\* the state of the service around one evaluation: its configuration
\* sources, what it loaded from them, and its requests
service == <<rule_store, brand_source, brand_rules, started_with, hash_seed,
             pending, reports>>

(***************************************************************************)
(* Python built-ins the code relies on.                                    *)
(***************************************************************************)
Get(d, k, default) == IF k \in DOMAIN d THEN d[k] ELSE default

Min(a, b) == IF a <= b THEN a ELSE b

Max(a, b) == IF a >= b THEN a ELSE b

RECURSIVE GCD(_, _)
GCD(a, b) == IF b = 0 THEN a ELSE GCD(b, a % b)

LCM(a, b) == (a \div GCD(a, b)) * b

\* The fraction n/d in lowest terms (d > 0, n >= 0).
Frac(n, d) == IF n = 0 THEN <<0, 1>> ELSE <<n \div GCD(n, d), d \div GCD(n, d)>>

FracAdd(x, y) ==
    LET l == LCM(x[2], y[2])
    IN  Frac(x[1] * (l \div x[2]) + y[1] * (l \div y[2]), l)

\* x >= k and x < k for a fraction x and an integer k
FracGeq(x, k) == x[1] >= k * x[2]

FracLeq(x, k) == x[1] <= k * x[2]

FracMin(k, x) == IF FracLeq(x, k) THEN x ELSE <<k, 1>>

FracMax(k, x) == IF FracGeq(x, k) THEN x ELSE <<k, 1>>

\* round(x, 2), in hundredths: to the nearest hundredth, a tie to the even one.
Round2(x) ==
    LET whole == x[1] \div x[2]
        rem   == x[1] % x[2]
        h     == (rem * 100) \div x[2]
        r2    == (rem * 100) % x[2]
        up    == (2 * r2 > x[2]) \/ (2 * r2 = x[2] /\ h % 2 = 1)
    IN  whole * 100 + h + (IF up THEN 1 ELSE 0)

RECURSIVE SumSeq(_)
SumSeq(s) == IF s = <<>> THEN 0 ELSE Head(s) + SumSeq(Tail(s))

\* for x in s: if cond(x): ...  -- the positions of s the condition keeps, in
\* order, given the condition's value at every position
RECURSIVE Kept(_)
Kept(flags) ==
    IF flags = <<>> THEN <<>>
    ELSE LET n    == Len(flags)
             rest == Kept(SubSeq(flags, 1, n - 1))
         IN  IF flags[n] THEN Append(rest, n) ELSE rest

\* sum(1 for x in s if cond(x)), given the condition's value at every position
CountTrue(flags) == Cardinality({i \in DOMAIN flags : flags[i]})

Range(s) == {s[i] : i \in DOMAIN s}

(***************************************************************************)
(* RiskScoringAgent (agents/risk_scoring_agent.py)                         *)
(***************************************************************************)
severity_weights == [critical |-> 10, high |-> 5, medium |-> 3, low |-> 1]

risk_thresholds == [high |-> 80, medium |-> 50, low |-> 0]

\* the table _load_rule_weights returns when the database cannot be read
DefaultRuleWeights ==
    [n \in {"ALT Text Required", "Link Validation", "CTA Branding Color Check",
            "Template Width Check", "Font Size Check", "Copy Tone Check",
            "Accessibility Color Contrast", "Spam Word Check",
            "Decorative Image ALT Skip"} |->
        CASE n = "Link Validation" -> 20
          [] n = "CTA Branding Color Check" -> 15
          [] n = "Decorative Image ALT Skip" -> 5
          [] OTHER -> 10]

DeterministicDefaultWeight == 5

HeuristicDefaultWeight == 10

DeterministicCeiling == 40

ComplianceCeiling == 25

ToneCeiling == 15

AccessibilityCeiling == 20

\* the loop over the deterministic results: the part added to
\* deterministic_score (in hundredths) by one result
deterministic_item_score(test, weights) ==
    IF test.status = "fail"
    THEN Get(weights, Get(test, "test_name", ""), DeterministicDefaultWeight)
            * Get(severity_weights, "high", 5)
    ELSE 0

\* deterministic_item_max adding to the maximum for failed results only
deterministic_item_max_failed_only(test, weights) ==
    IF test.status = "fail"
    THEN Get(weights, Get(test, "test_name", ""), DeterministicDefaultWeight)
            * severity_weights["high"]
    ELSE 0

\* the part added to deterministic_max by one result, passed or failed
deterministic_item_max(test, weights) ==
    Get(weights, Get(test, "test_name", ""), DeterministicDefaultWeight)
        * severity_weights["high"]

deterministic_score(results, weights) ==
    SumSeq([i \in DOMAIN results |-> deterministic_item_score(results[i], weights)])

deterministic_max(results, weights) ==
    SumSeq([i \in DOMAIN results |-> deterministic_item_max(results[i], weights)])

\* issue_item_score with the weight of low for a severity outside the table
issue_item_score_unknown_low(issue, weights) ==
    Get(weights, Get(issue, "rule", ""), HeuristicDefaultWeight)
        * Get(severity_weights, Get(issue, "severity", "medium"), 1)

\* the loops over the issues of compliance, tone and accessibility are the
\* same code three times: one issue's part of <category>_score ...
issue_item_score(issue, weights) ==
    Get(weights, Get(issue, "rule", ""), HeuristicDefaultWeight)
        * Get(severity_weights, Get(issue, "severity", "medium"), 3)

\* issue_item_max with the weight of high for that of critical
issue_item_max_high(issue, weights) ==
    Get(weights, Get(issue, "rule", ""), HeuristicDefaultWeight)
        * severity_weights["high"]

\* ... and of <category>_max
issue_item_max(issue, weights) ==
    Get(weights, Get(issue, "rule", ""), HeuristicDefaultWeight)
        * severity_weights["critical"]

\* issues_score with the score assigned, not accumulated, in the loop
issues_score_last_only(results, weights) ==
    LET issues == Get(results, "issues", <<>>)
    IN  IF issues = <<>> THEN 0
        ELSE issue_item_score(issues[Len(issues)], weights)

issues_score(results, weights) ==
    LET issues == Get(results, "issues", <<>>)
    IN  SumSeq([i \in DOMAIN issues |-> issue_item_score(issues[i], weights)])

issues_max(results, weights) ==
    LET issues == Get(results, "issues", <<>>)
    IN  SumSeq([i \in DOMAIN issues |-> issue_item_max(issues[i], weights)])

\* issue_counts: the severities counted, in the order the loops meet them
counted_severities(all_agent_results) ==
    LET tests  == Get(all_agent_results, "deterministic", <<>>)
        failed == Kept([i \in DOMAIN tests |-> tests[i].status = "fail"])
        of(cat) ==
            LET issues == Get(Get(all_agent_results, cat, <<>>), "issues", <<>>)
            IN  [i \in DOMAIN issues |-> Get(issues[i], "severity", "medium")]
    IN  [k \in DOMAIN failed |-> "high"]
        \o of("compliance") \o of("tone") \o of("accessibility")

issue_counts_of(all_agent_results) ==
    LET sevs == counted_severities(all_agent_results)
    IN  [s \in Range(sevs) |-> Cardinality({i \in DOMAIN sevs : sevs[i] = s})]

\* weighted_score with min(max, 1) written for max(max, 1)
weighted_score_min(score, max, ceiling) ==
    IF max > 0 THEN Frac(score * ceiling, Min(max, 100)) ELSE <<0, 1>>

\* (score / max(max, 1)) * ceiling if max > 0 else 0, score and max in hundredths
weighted_score(score, max, ceiling) ==
    IF max > 0 THEN Frac(score * ceiling, Max(max, 100)) ELSE <<0, 1>>

final_score(dw, cw, tw, aw) == FracAdd(FracAdd(dw, cw), FracAdd(tw, aw))

\* normalized_score with the sum taken for a fraction of 1 and scaled to a
\* percentage instead of being clamped
normalized_score_scaled(final) == <<final[1] * 100, final[2]>>

normalized_score(final) == FracMin(100, FracMax(0, final))

\* _determine_risk_level with > written for >=
_determine_risk_level_strict(score) ==
    IF ~FracLeq(score, risk_thresholds["high"]) THEN "high"
    ELSE IF ~FracLeq(score, risk_thresholds["medium"]) THEN "medium"
    ELSE "low"

_determine_risk_level(score) ==
    IF FracGeq(score, risk_thresholds["high"]) THEN "high"
    ELSE IF FracGeq(score, risk_thresholds["medium"]) THEN "medium"
    ELSE "low"

\* Counter[key]: 0 for a key never counted
CounterAt(counter, key) == Get(counter, key, 0)

_generate_risk_reason(risk_level, issue_counts) ==
    IF risk_level = "high"
    THEN <<"High risk due to critical and high severity issues",
           CounterAt(issue_counts, "critical"), CounterAt(issue_counts, "high")>>
    ELSE IF risk_level = "medium"
    THEN <<"Medium risk due to medium severity issues",
           CounterAt(issue_counts, "medium")>>
    ELSE <<"Low risk with minor issues", CounterAt(issue_counts, "low")>>

\* calculate_risk up to the rounding: the raw accumulators (hundredths), the
\* four weighted contributions, their sum and the clamped sum (fractions)
calculate_risk_locals(all_agent_results, weights) ==
    LET det  == Get(all_agent_results, "deterministic", <<>>)
        comp == Get(all_agent_results, "compliance", <<>>)
        tone == Get(all_agent_results, "tone", <<>>)
        acc  == Get(all_agent_results, "accessibility", <<>>)
        ds == deterministic_score(det, weights)
        dm == deterministic_max(det, weights)
        cs == issues_score(comp, weights)
        cm == issues_max(comp, weights)
        ts == issues_score(tone, weights)
        tm == issues_max(tone, weights)
        as == issues_score(acc, weights)
        am == issues_max(acc, weights)
        dw == weighted_score(ds, dm, DeterministicCeiling)
        cw == weighted_score(cs, cm, ComplianceCeiling)
        tw == weighted_score(ts, tm, ToneCeiling)
        aw == weighted_score(as, am, AccessibilityCeiling)
        fs == final_score(dw, cw, tw, aw)
    IN  [deterministic_score |-> ds, deterministic_max |-> dm,
         compliance_score |-> cs, compliance_max |-> cm,
         tone_score |-> ts, tone_max |-> tm,
         accessibility_score |-> as, accessibility_max |-> am,
         deterministic_weighted |-> dw, compliance_weighted |-> cw,
         tone_weighted |-> tw, accessibility_weighted |-> aw,
         final_score |-> fs, normalized_score |-> normalized_score(fs)]

\* the dictionary calculate_risk returns (two-decimal values in hundredths)
calculate_risk_result(l, issue_counts) ==
    LET risk_level == _determine_risk_level(l.normalized_score)
    IN  [agent |-> "risk_scoring",
         score |-> Round2(l.normalized_score),
         risk_level |-> risk_level,
         issue_counts |-> issue_counts,
         breakdown |->
            [deterministic |->
                [score |-> Round2(l.deterministic_weighted),
                 max |-> DeterministicCeiling,
                 raw_score |-> l.deterministic_score,
                 raw_max |-> l.deterministic_max],
             compliance |->
                [score |-> Round2(l.compliance_weighted),
                 max |-> ComplianceCeiling,
                 raw_score |-> l.compliance_score,
                 raw_max |-> l.compliance_max],
             tone |->
                [score |-> Round2(l.tone_weighted),
                 max |-> ToneCeiling,
                 raw_score |-> l.tone_score,
                 raw_max |-> l.tone_max],
             accessibility |->
                [score |-> Round2(l.accessibility_weighted),
                 max |-> AccessibilityCeiling,
                 raw_score |-> l.accessibility_score,
                 raw_max |-> l.accessibility_max]],
         reason |-> _generate_risk_reason(risk_level, issue_counts)]

calculate_risk(all_agent_results, weights) ==
    calculate_risk_result(calculate_risk_locals(all_agent_results, weights),
                          issue_counts_of(all_agent_results))

(***************************************************************************)
(* list.sort(key=..., reverse=...): Python's sort is stable, and with      *)
(* reverse=True it still keeps elements of equal key in their original     *)
(* order.  Pairs <<key, element>> are inserted one by one, each behind     *)
(* the pairs whose key is not larger.                                      *)
(***************************************************************************)
RECURSIVE InsertStable(_, _)
InsertStable(p, s) ==
    IF s = <<>> THEN <<p>>
    ELSE IF p[1] < Head(s)[1] THEN <<p>> \o s
    ELSE <<Head(s)>> \o InsertStable(p, Tail(s))

RECURSIVE SortPairs(_)
SortPairs(s) ==
    IF s = <<>> THEN <<>>
    ELSE InsertStable(s[Len(s)], SortPairs(SubSeq(s, 1, Len(s) - 1)))

list_sort(s, key, reverse) ==
    LET pairs  == [i \in DOMAIN s |->
                      <<IF reverse THEN 0 - key[i] ELSE key[i], s[i]>>]
        sorted == SortPairs(pairs)
    IN  [i \in DOMAIN s |-> sorted[i][2]]

\* s[:n]
Prefix(s, n) == SubSeq(s, 1, Min(n, Len(s)))

(***************************************************************************)
(* SupervisorAgent (agents/supervisor_agent.py) and AgentOrchestrator      *)
(* (agent_orchestrator.py)                                                 *)
(***************************************************************************)
IsFail(test) == test.status = "fail"

DeterministicFailureLimit == 3

TopIssuesLimit == 10

\* _determine_overall_status with >= written for > in the failure limit
_determine_overall_status_geq(det_results, comp_results, tone_res, acc_results, risk_res) ==
    LET deterministic_failures ==
            CountTrue([i \in DOMAIN det_results |-> IsFail(det_results[i])])
        compliance_issues == Get(comp_results, "issues", <<>>)
        critical_compliance ==
            \E i \in DOMAIN compliance_issues :
                Get(compliance_issues[i], "severity", "None") = "critical"
        risk_level == Get(risk_res, "risk_level", "low")
    IN  IF deterministic_failures >= DeterministicFailureLimit
           \/ critical_compliance \/ risk_level = "high"
        THEN "fail"
        ELSE IF deterministic_failures > 0 \/ risk_level = "medium"
        THEN "needs_review"
        ELSE "pass"

\* _determine_overall_status without the critical-compliance test
_determine_overall_status_no_critical(det_results, comp_results, tone_res, acc_results, risk_res) ==
    LET deterministic_failures ==
            CountTrue([i \in DOMAIN det_results |-> IsFail(det_results[i])])
        risk_level == Get(risk_res, "risk_level", "low")
    IN  IF deterministic_failures > DeterministicFailureLimit
           \/ risk_level = "high"
        THEN "fail"
        ELSE IF deterministic_failures > 0 \/ risk_level = "medium"
        THEN "needs_review"
        ELSE "pass"

_determine_overall_status(det_results, comp_results, tone_res, acc_results, risk_res) ==
    LET deterministic_failures ==
            CountTrue([i \in DOMAIN det_results |-> IsFail(det_results[i])])
        compliance_issues == Get(comp_results, "issues", <<>>)
        critical_compliance ==
            \E i \in DOMAIN compliance_issues :
                Get(compliance_issues[i], "severity", "None") = "critical"
        risk_level == Get(risk_res, "risk_level", "low")
    IN  IF deterministic_failures > DeterministicFailureLimit
           \/ critical_compliance \/ risk_level = "high"
        THEN "fail"
        ELSE IF deterministic_failures > 0 \/ risk_level = "medium"
        THEN "needs_review"
        ELSE "pass"

_calculate_overall_status(det_results, agentic_results) ==
    LET deterministic_failures ==
            CountTrue([i \in DOMAIN det_results |-> IsFail(det_results[i])])
        risk_level == Get(agentic_results, "risk_level", "low")
    IN  IF deterministic_failures > 3 \/ risk_level = "high"
        THEN "fail"
        ELSE IF deterministic_failures > 0 \/ risk_level = "medium"
        THEN "needs_review"
        ELSE "pass"

severity_order == [critical |-> 4, high |-> 3, medium |-> 2, low |-> 1]

SeverityRank(entry) == Get(severity_order, entry.severity, 0)

\* the list _extract_top_issues builds before it sorts
collected_issues(det_results, comp_results, tone_res, acc_results) ==
    LET det_entry(test) ==
            [type |-> "deterministic", test_name |-> test.test_name,
             details |-> test.details, severity |-> "high"]
        failed == Kept([i \in DOMAIN det_results |-> IsFail(det_results[i])])
        of(results, type) ==
            LET issues == Get(results, "issues", <<>>)
                entry(issue) ==
                    [type |-> type, test_name |-> Get(issue, "rule", ""),
                     details |-> Get(issue, "description", ""),
                     severity |-> Get(issue, "severity", "medium")]
            IN  [i \in DOMAIN issues |-> entry(issues[i])]
    IN  [k \in DOMAIN failed |-> det_entry(det_results[failed[k]])]
        \o of(comp_results, "compliance") \o of(tone_res, "tone")
        \o of(acc_results, "accessibility")

\* _extract_top_issues truncating before it sorts
_extract_top_issues_truncate_first(det_results, comp_results, tone_res, acc_results) ==
    LET top == Prefix(collected_issues(det_results, comp_results, tone_res,
                                       acc_results),
                      TopIssuesLimit)
    IN  list_sort(top, [i \in DOMAIN top |-> SeverityRank(top[i])], TRUE)

\* _extract_top_issues sorting ascending and reversing the sorted list
_extract_top_issues_reversing(det_results, comp_results, tone_res, acc_results) ==
    LET top == collected_issues(det_results, comp_results, tone_res, acc_results)
        ascending ==
            list_sort(top, [i \in DOMAIN top |-> SeverityRank(top[i])], FALSE)
    IN  Prefix([i \in DOMAIN ascending |-> ascending[Len(ascending) + 1 - i]],
               TopIssuesLimit)

_extract_top_issues(det_results, comp_results, tone_res, acc_results) ==
    LET top == collected_issues(det_results, comp_results, tone_res, acc_results)
    IN  Prefix(list_sort(top, [i \in DOMAIN top |-> SeverityRank(top[i])], TRUE),
               TopIssuesLimit)

(***************************************************************************)
(* FixSuggestionAgent (agents/fix_suggestion_agent.py)                     *)
(*                                                                         *)
(* A template is its text and the placeholders the text names.             *)
(* template.format, given a mapping, raises KeyError when a placeholder is *)
(* no key of it; otherwise the rendered text is the template text with     *)
(* the values bound to its placeholders.                                   *)
(***************************************************************************)
Template(text, fields) == [text |-> text, fields |-> fields]

fix_templates ==
    [alt_text |-> Template("Add descriptive ALT text to image: {element}", {"element"}),
     links |-> Template("Fix malformed link: {url}", {"url"}),
     subject_line |-> Template("Add a compelling subject line", {}),
     preheader |-> Template("Add a preheader text", {}),
     template_meta |-> Template("Add missing template metadata: {missing_field}",
                                {"missing_field"}),
     width |-> Template("Specify width attributes for email elements", {}),
     background_color |-> Template("Define background colors for all sections", {}),
     image_dimensions |-> Template("Add width and height attributes to image: {element}",
                                   {"element"}),
     long_copy |-> Template("Break up long text block into shorter paragraphs", {}),
     font_compliance |-> Template("Update font family to brand standard: {expected_font}",
                                  {"expected_font"}),
     cta_color_compliance |->
        Template("Update CTA button color to brand standard: {expected_color}",
                 {"expected_color"}),
     spacing_compliance |-> Template("Adjust spacing to brand guidelines: {spacing_rule}",
                                     {"spacing_rule"}),
     logo_placement |-> Template("Add brand logo to header: {expected_logo}",
                                 {"expected_logo"}),
     header_consistency |-> Template("Ensure consistent header structure", {}),
     footer_consistency |-> Template("Ensure consistent footer structure", {}),
     spam_indicators |-> Template("Remove or rephrase spammy language: {spam_text}",
                                  {"spam_text"}),
     complex_sentences |-> Template("Simplify complex sentence structure", {}),
     clarity |-> Template("Rewrite passive voice to active voice", {}),
     grammar |-> Template("Fix grammar issue: {grammar_issue}", {"grammar_issue"}),
     alt_text_quality |-> Template("Improve ALT text descriptiveness: {current_text}",
                                   {"current_text"}),
     semantic_html |-> Template("Add proper heading structure", {}),
     link_text_clarity |-> Template("Make link text more descriptive: {current_text}",
                                    {"current_text"}),
     color_contrast |-> Template("Ensure sufficient color contrast for readability", {})]

\* template.format applied to the mapping's items
Format(template, mapping) ==
    IF template.fields \subseteq DOMAIN mapping
    THEN [raised |-> "none", text |-> template.text,
          args |-> [f \in template.fields |-> mapping[f]]]
    ELSE [raised |-> "KeyError", text |-> template.text, args |-> <<>>]

\* d.setdefault(k, v) for every k |-> v of defaults, on a copy of d
SetDefaults(d, defaults) ==
    [k \in DOMAIN d \cup DOMAIN defaults |->
        IF k \in DOMAIN d THEN d[k] ELSE defaults[k]]

\* the defaults of _generate_deterministic_fix without missing_field
deterministic_fix_defaults_short ==
    [element |-> "element", url |-> "link",
     expected_font |-> "Arial", expected_color |-> "#0085FF",
     spacing_rule |-> "padding", expected_logo |-> "logo", spam_text |-> "text",
     grammar_issue |-> "issue", current_text |-> "text"]

\* the setdefault calls of _generate_deterministic_fix
deterministic_fix_defaults ==
    [element |-> "element", url |-> "link", missing_field |-> "field",
     expected_font |-> "Arial", expected_color |-> "#0085FF",
     spacing_rule |-> "padding", expected_logo |-> "logo", spam_text |-> "text",
     grammar_issue |-> "issue", current_text |-> "text"]

\* the setdefault calls of _generate_compliance_fix, _generate_tone_fix and
\* _generate_accessibility_fix (the same eleven in each)
issue_fix_defaults ==
    [element |-> "element", url |-> "link", missing_field |-> "field",
     expected_font |-> "Arial", expected_color |-> "#0085FF",
     spacing_rule |-> "padding", expected_logo |-> "logo", spam_text |-> "text",
     grammar_issue |-> "issue", current_text |-> "text", description |-> "issue"]

\* d[k], which raises KeyError when k is no key of d
HasKeys(d, keys) == keys \subseteq DOMAIN d

\* _generate_deterministic_fix with the priority medium
_generate_deterministic_fix_medium(test_result) ==
    IF ~HasKeys(test_result, {"test_name", "details"})
    THEN [raised |-> "KeyError"]
    ELSE
    LET test_name == test_result.test_name
        template == Get(fix_templates, test_name,
                        Template("Fix {test_name} issue", {"test_name"}))
        safe_test_result == SetDefaults(test_result, deterministic_fix_defaults)
        suggestion == Format(template, safe_test_result)
    IN  [raised |-> suggestion.raised,
         type |-> "deterministic",
         issue |-> test_name,
         description |-> test_result.details,
         suggestion |-> [text |-> suggestion.text, args |-> suggestion.args],
         priority |-> "medium"]

_generate_deterministic_fix(test_result) ==
    IF ~HasKeys(test_result, {"test_name", "details"})
    THEN [raised |-> "KeyError"]
    ELSE
    LET test_name == test_result.test_name
        template == Get(fix_templates, test_name,
                        Template("Fix {test_name} issue", {"test_name"}))
        safe_test_result == SetDefaults(test_result, deterministic_fix_defaults)
        suggestion == Format(template, safe_test_result)
    IN  [raised |-> suggestion.raised,
         type |-> "deterministic",
         issue |-> test_name,
         description |-> test_result.details,
         suggestion |-> [text |-> suggestion.text, args |-> suggestion.args],
         priority |-> "high"]

\* the body shared by the three issue fix generators
issue_fix(issue, type, fallback) ==
    LET rule == Get(issue, "rule", type)
        template == Get(fix_templates, rule, fallback)
        safe_issue == SetDefaults(issue, issue_fix_defaults)
        suggestion == Format(template, safe_issue)
    IN  [raised |-> suggestion.raised,
         type |-> type,
         issue |-> rule,
         description |-> Get(issue, "description", ""),
         suggestion |-> [text |-> suggestion.text, args |-> suggestion.args],
         priority |-> Get(issue, "severity", "medium")]

_generate_compliance_fix(issue) ==
    issue_fix(issue, "compliance",
              Template("Fix compliance issue: {description}", {"description"}))

_generate_tone_fix(issue) ==
    issue_fix(issue, "tone",
              Template("Improve tone/clarity: {description}", {"description"}))

_generate_accessibility_fix(issue) ==
    issue_fix(issue, "accessibility",
              Template("Improve accessibility: {description}", {"description"}))

priority_order == [critical |-> 1, high |-> 2, medium |-> 3, low |-> 4]

PriorityRank(fix) == Get(priority_order, Get(fix, "priority", "medium"), 3)

\* _prioritize_fixes without the sort
_prioritize_fixes_unsorted(fixes) == fixes

_prioritize_fixes(fixes) ==
    list_sort(fixes, [i \in DOMAIN fixes |-> PriorityRank(fixes[i])], FALSE)

\* the list generate_fixes builds before it sorts
generated_fixes(all_agent_results) ==
    LET tests  == Get(all_agent_results, "deterministic", <<>>)
        failed == Kept([i \in DOMAIN tests |-> IsFail(tests[i])])
        issues(cat) == Get(Get(all_agent_results, cat, <<>>), "issues", <<>>)
        compliance    == issues("compliance")
        tone          == issues("tone")
        accessibility == issues("accessibility")
    IN  [k \in DOMAIN failed |-> _generate_deterministic_fix(tests[failed[k]])]
        \o [i \in DOMAIN compliance |-> _generate_compliance_fix(compliance[i])]
        \o [i \in DOMAIN tone |-> _generate_tone_fix(tone[i])]
        \o [i \in DOMAIN accessibility |->
               _generate_accessibility_fix(accessibility[i])]

\* generate_fixes: the sorted suggestions, or the exception of the first
\* suggestion that could not be rendered
generate_fixes(all_agent_results, risk_res) ==
    LET fixes == generated_fixes(all_agent_results)
        failed == {i \in DOMAIN fixes : fixes[i].raised # "none"}
    IN  IF failed # {}
        THEN [raised |-> "KeyError", fixes |-> <<>>]
        ELSE [raised |-> "none",
              fixes |-> _prioritize_fixes(
                  [i \in DOMAIN fixes |->
                      [type |-> fixes[i].type, issue |-> fixes[i].issue,
                       description |-> fixes[i].description,
                       suggestion |-> fixes[i].suggestion,
                       priority |-> fixes[i].priority]])]

\* the item handed to a fix generator that calls setdefault on the item
\* itself, not on a copy of it
item_after_fix_no_copy(item, defaults) == SetDefaults(item, defaults)

\* the item handed to _generate_deterministic_fix, _generate_compliance_fix,
\* _generate_tone_fix or _generate_accessibility_fix, once the call returned:
\* the setdefault calls act on item.copy(), the item keeps its own keys
item_after_fix(item, defaults) == item

\* the lists generate_fixes was given, once it returned: the failed results
\* and the issues went through the fix generators, and only the list of
\* suggestions was sorted
after_generate_fixes(all_agent_results) ==
    LET tests == Get(all_agent_results, "deterministic", <<>>)
        held(cat) ==
            LET analysis == Get(all_agent_results, cat, <<>>)
                issues   == Get(analysis, "issues", <<>>)
            IN  IF "issues" \in DOMAIN analysis
                THEN [analysis EXCEPT !.issues =
                        [i \in DOMAIN issues |->
                            item_after_fix(issues[i], issue_fix_defaults)]]
                ELSE analysis
    IN  [deterministic |->
            [i \in DOMAIN tests |->
                IF IsFail(tests[i])
                THEN item_after_fix(tests[i], deterministic_fix_defaults)
                ELSE tests[i]],
         compliance |-> held("compliance"), tone |-> held("tone"),
         accessibility |-> held("accessibility")]

(***************************************************************************)
(* Deterministic tests (deterministic_tests.py)                            *)
(*                                                                         *)
(* The markup is what the checks read of it: the <img> elements and the    *)
(* <a> elements BeautifulSoup finds, each with the attributes it has, the  *)
(* text nodes' lengths after strip(), and which of the literals the raw    *)
(* string is searched for occur in it.  A value interpolated into a        *)
(* details text is appended when it is a string of the input; the markup   *)
(* of an element and a length are left out of the text.                    *)
(***************************************************************************)
\* s.strip(), for the strings of the input alphabet
Strip(s) == IF s = " " THEN "" ELSE s

\* Python's truth value of a string or None ("None" stands for None)
Truthy(s) == s # "" /\ s # "None"

StartsWith(s, p) == Len(s) >= Len(p) /\ SubSeq(s, 1, Len(p)) = p

StartsWithAny(s, prefixes) == \E p \in prefixes : StartsWith(s, p)

Result(test_name, status, details) ==
    [test_name |-> test_name, status |-> status, details |-> details]

\* if not issues: issues.append(placeholder)
OrPlaceholder(issues, placeholder) ==
    IF issues = <<>> THEN <<placeholder>> ELSE issues

\* check_alt_text without the strip(): a blank alt passes
check_alt_text_no_strip(html) ==
    LET images == html.images
        one(img) ==
            IF ~Truthy(Get(img, "alt", "None"))
            THEN Result("alt_text", "fail", "Image missing ALT text")
            ELSE Result("alt_text", "pass", "ALT text present")
    IN  OrPlaceholder([i \in DOMAIN images |-> one(images[i])],
            Result("alt_text", "pass", "No images found, ALT text check passed"))

check_alt_text(html) ==
    LET images == html.images
        one(img) ==
            LET alt_text == Get(img, "alt", "None")
            IN  IF ~Truthy(alt_text) \/ Strip(alt_text) = ""
                THEN Result("alt_text", "fail", "Image missing ALT text")
                ELSE Result("alt_text", "pass", "ALT text present")
    IN  OrPlaceholder([i \in DOMAIN images |-> one(images[i])],
            Result("alt_text", "pass", "No images found, ALT text check passed"))

\* check_links without "#" among the accepted prefixes
check_links_no_fragment(html) ==
    LET links == Kept([i \in DOMAIN html.anchors |->
                           "href" \in DOMAIN html.anchors[i]])
        one(link) ==
            IF ~StartsWithAny(link.href, {"http://", "https://", "mailto:"})
            THEN Result("links", "fail", "Malformed link: " \o link.href)
            ELSE Result("links", "pass", "Valid link: " \o link.href)
    IN  OrPlaceholder([k \in DOMAIN links |-> one(html.anchors[links[k]])],
            Result("links", "pass", "No links found, link check passed"))

check_links(html) ==
    LET links == Kept([i \in DOMAIN html.anchors |->
                           "href" \in DOMAIN html.anchors[i]])
        one(link) ==
            IF ~StartsWithAny(link.href, {"http://", "https://", "mailto:", "#"})
            THEN Result("links", "fail", "Malformed link: " \o link.href)
            ELSE Result("links", "pass", "Valid link: " \o link.href)
    IN  OrPlaceholder([k \in DOMAIN links |-> one(html.anchors[links[k]])],
            Result("links", "pass", "No links found, link check passed"))

check_subject_line(meta) ==
    LET subject == Get(meta, "subject", "")
    IN  IF ~Truthy(subject) \/ Strip(subject) = ""
        THEN <<Result("subject_line", "fail", "Missing subject line")>>
        ELSE <<Result("subject_line", "pass", "Subject line present: " \o subject)>>

\* check_preheader reading the subject key
check_preheader_subject(meta) ==
    LET preheader == Get(meta, "subject", "")
    IN  IF ~Truthy(preheader) \/ Strip(preheader) = ""
        THEN <<Result("preheader", "fail", "Missing preheader")>>
        ELSE <<Result("preheader", "pass", "Preheader present")>>

check_preheader(meta) ==
    LET preheader == Get(meta, "preheader", "")
    IN  IF ~Truthy(preheader) \/ Strip(preheader) = ""
        THEN <<Result("preheader", "fail", "Missing preheader")>>
        ELSE <<Result("preheader", "pass", "Preheader present")>>

\* check_template_meta reporting name and locale in one result
check_template_meta_single(meta) ==
    LET template_name == Get(meta, "template_name", "")
        locale == Get(meta, "locale", "")
    IN  <<IF Strip(template_name) = "" \/ Strip(locale) = ""
          THEN Result("template_meta", "fail", "Missing template metadata")
          ELSE Result("template_meta", "pass", "Template metadata present")>>

check_template_meta(meta) ==
    LET template_name == Get(meta, "template_name", "")
        locale == Get(meta, "locale", "")
    IN  <<IF ~Truthy(template_name) \/ Strip(template_name) = ""
          THEN Result("template_meta", "fail", "Missing template name")
          ELSE Result("template_meta", "pass",
                      "Template name present: " \o template_name),
          IF ~Truthy(locale) \/ Strip(locale) = ""
          THEN Result("template_meta", "fail", "Missing locale")
          ELSE Result("template_meta", "pass", "Locale present: " \o locale)>>

check_width(html) ==
    IF "width=" \notin html.literals /\ "style=" \notin html.literals
    THEN <<Result("width", "fail", "No width attributes found in email")>>
    ELSE <<Result("width", "pass", "Width attributes found")>>

check_background_color(html) ==
    IF "background-color:" \notin html.literals /\ "bgcolor=" \notin html.literals
    THEN <<Result("background_color", "fail",
                  "No background color declarations found")>>
    ELSE <<Result("background_color", "pass",
                  "Background color declarations found")>>

check_image_dimensions(html) ==
    LET images == html.images
        one(img) ==
            IF ~Truthy(Get(img, "width", "None")) /\ ~Truthy(Get(img, "height", "None"))
            THEN Result("image_dimensions", "fail", "Image missing dimensions")
            ELSE Result("image_dimensions", "pass", "Image dimensions present")
    IN  OrPlaceholder([i \in DOMAIN images |-> one(images[i])],
            Result("image_dimensions", "pass",
                   "No images found, dimension check passed"))

LongCopyLimit == 200

\* check_long_copy without the placeholder for "no long text"
check_long_copy_no_placeholder(html) ==
    LET long == Kept([i \in DOMAIN html.texts |->
                          html.texts[i] # 0 /\ html.texts[i] > LongCopyLimit])
    IN  [k \in DOMAIN long |-> Result("long_copy", "fail", "Long text line found")]

\* a text node is the length of text.strip()
check_long_copy(html) ==
    LET long == Kept([i \in DOMAIN html.texts |->
                          html.texts[i] # 0 /\ html.texts[i] > LongCopyLimit])
    IN  OrPlaceholder(
            [k \in DOMAIN long |-> Result("long_copy", "fail", "Long text line found")],
            Result("long_copy", "pass", "No excessively long text lines found"))

run_all_deterministic_tests(html, meta) ==
    check_alt_text(html) \o check_links(html) \o check_subject_line(meta)
    \o check_preheader(meta) \o check_template_meta(meta) \o check_width(html)
    \o check_background_color(html) \o check_image_dimensions(html)
    \o check_long_copy(html)

(***************************************************************************)
(* Inputs.  An operation is applied to inputs drawn from the sets below.   *)
(***************************************************************************)
Severities == {"critical", "high", "medium", "low"}

\* "info" stands for a severity that is none of the four
SeverityInputs == Severities \cup {"info"}

Statuses == {"pass", "fail"}

Ordinal == <<"1", "2", "3", "4", "5", "6", "7", "8", "9", "10", "11", "12",
             "13", "14", "15", "16">>

\* a details/description text that names the item: its category and its
\* position in the list the evaluator returned
Tag(category, i) == category \o "#" \o Ordinal[i]

\* an evaluator's result dictionary
AgentResult(agent, issues) == [agent |-> agent, issues |-> issues]

Issue(rule, description, severity) ==
    [rule |-> rule, description |-> description, severity |-> severity]

NoHtml == [images |-> <<>>, anchors |-> <<>>, texts |-> <<>>, literals |-> {}]

Unset == <<>>

IssuesOf(results) == Get(results, "issues", <<>>)

ItemsTotal ==
    Len(deterministic_results) + Len(IssuesOf(compliance_results))
    + Len(IssuesOf(tone_results)) + Len(IssuesOf(accessibility_results))

all_agent_results ==
    [compliance |-> compliance_results, tone |-> tone_results,
     accessibility |-> accessibility_results,
     deterministic |-> deterministic_results]

\* the state before any operation ran, for the given inputs
Start(html, meta, det, comp, tone, acc, weights, risk) ==
    /\ html_content = html
    /\ metadata = meta
    /\ deterministic_results = det
    /\ compliance_results = AgentResult("compliance", comp)
    /\ tone_results = AgentResult("tone", tone)
    /\ accessibility_results = AgentResult("accessibility", acc)
    /\ rule_weights = weights
    /\ risk_locals = Unset
    /\ risk_results = risk
    /\ overall_status = "unset"
    /\ report_status = "unset"
    /\ fix_suggestions = Unset
    /\ top_issues = Unset
    /\ raised = "none"
    /\ pc = "input"
    /\ rule_store = [readable |-> TRUE, rules |-> weights]
    /\ brand_source = [kind |-> "absent"]
    /\ brand_rules = Unset
    /\ started_with = [readable |-> TRUE, rules |-> weights]
    /\ hash_seed = Unset
    /\ pending = {}
    /\ reports = <<>>

(***************************************************************************)
(* The evaluators' outputs, one item at a time (the lists the operations   *)
(* consume are arbitrary lists of results and issues).                     *)
(***************************************************************************)
AddDeterministic(test_name, status, limit) ==
    /\ pc = "input"
    /\ UNCHANGED service
    /\ ItemsTotal < limit
    /\ deterministic_results' =
          Append(deterministic_results,
                 Result(test_name, status,
                        Tag("deterministic", Len(deterministic_results) + 1)))
    /\ UNCHANGED <<html_content, metadata, compliance_results, tone_results,
                   accessibility_results, rule_weights, risk_locals,
                   risk_results, overall_status, report_status,
                   fix_suggestions, top_issues, raised, pc>>

AddCompliance(rule, severity, limit) ==
    /\ pc = "input"
    /\ UNCHANGED service
    /\ ItemsTotal < limit
    /\ compliance_results' =
          AgentResult("compliance",
              Append(IssuesOf(compliance_results),
                     Issue(rule, Tag("compliance",
                                     Len(IssuesOf(compliance_results)) + 1),
                           severity)))
    /\ UNCHANGED <<html_content, metadata, deterministic_results, tone_results,
                   accessibility_results, rule_weights, risk_locals,
                   risk_results, overall_status, report_status,
                   fix_suggestions, top_issues, raised, pc>>

AddTone(rule, severity, limit) ==
    /\ pc = "input"
    /\ UNCHANGED service
    /\ ItemsTotal < limit
    /\ tone_results' =
          AgentResult("tone",
              Append(IssuesOf(tone_results),
                     Issue(rule, Tag("tone", Len(IssuesOf(tone_results)) + 1),
                           severity)))
    /\ UNCHANGED <<html_content, metadata, deterministic_results,
                   compliance_results, accessibility_results, rule_weights,
                   risk_locals, risk_results, overall_status, report_status,
                   fix_suggestions, top_issues, raised, pc>>

AddAccessibility(rule, severity, limit) ==
    /\ pc = "input"
    /\ UNCHANGED service
    /\ ItemsTotal < limit
    /\ accessibility_results' =
          AgentResult("accessibility",
              Append(IssuesOf(accessibility_results),
                     Issue(rule, Tag("accessibility",
                                     Len(IssuesOf(accessibility_results)) + 1),
                           severity)))
    /\ UNCHANGED <<html_content, metadata, deterministic_results,
                   compliance_results, tone_results, rule_weights, risk_locals,
                   risk_results, overall_status, report_status,
                   fix_suggestions, top_issues, raised, pc>>

(***************************************************************************)
(* SupervisorAgent.process_email, from the evaluators' results on: the     *)
(* risk score, the fix suggestions, the overall status and the top issues. *)
(***************************************************************************)
process_email ==
    /\ pc = "input"
    /\ UNCHANGED service
    /\ LET locals == calculate_risk_locals(all_agent_results, rule_weights)
           risk   == calculate_risk_result(locals, issue_counts_of(all_agent_results))
           fixes  == generate_fixes(all_agent_results, risk)
       IN  IF fixes.raised # "none"
           THEN /\ raised' = fixes.raised
                /\ UNCHANGED <<risk_locals, risk_results, fix_suggestions,
                               overall_status, top_issues>>
           ELSE /\ risk_locals' = locals
                /\ risk_results' = risk
                /\ fix_suggestions' = fixes.fixes
                /\ overall_status' =
                      _determine_overall_status(deterministic_results,
                          compliance_results, tone_results,
                          accessibility_results, risk)
                /\ top_issues' =
                      _extract_top_issues(deterministic_results,
                          compliance_results, tone_results,
                          accessibility_results)
                /\ UNCHANGED raised
    /\ LET held == after_generate_fixes(all_agent_results)
       IN  /\ deterministic_results' = held.deterministic
           /\ compliance_results' = held.compliance
           /\ tone_results' = held.tone
           /\ accessibility_results' = held.accessibility
    /\ pc' = "done"
    /\ UNCHANGED <<html_content, metadata, rule_weights, report_status>>

(***************************************************************************)
(* SpecRisk: the aggregator on arbitrary results, issues and rule weights. *)
(***************************************************************************)
MaxRiskItems == 3

RiskTestNames == {"alt_text", "links"}

\* rule_weights as _load_rule_weights can return it: the built-in table, or
\* the rows of the rule configuration table (here rows for one test name and
\* one compliance rule, at either end of the weight scale, or rows for the two
\* test names, one at each end)
RuleWeightInputs ==
    {DefaultRuleWeights}
    \cup [{"alt_text", "font_compliance"} -> {0, 100}]
    \cup {[alt_text |-> 0, links |-> 100]}

InitRisk ==
    \E w \in RuleWeightInputs :
        Start(NoHtml, <<>>, <<>>, <<>>, <<>>, <<>>, w, Unset)

NextRisk ==
    \/ \E n \in RiskTestNames, st \in Statuses : AddDeterministic(n, st, MaxRiskItems)
    \/ \E sv \in SeverityInputs : AddCompliance("font_compliance", sv, MaxRiskItems)
    \/ \E sv \in SeverityInputs : AddTone("spam_indicators", sv, MaxRiskItems)
    \/ \E sv \in SeverityInputs : AddAccessibility("alt_text_quality", sv, MaxRiskItems)
    \/ process_email

SpecRisk == InitRisk /\ [][NextRisk]_vars

\* C1: for every list of deterministic results, every compliance, tone and
\* accessibility issue list with any severities and every rule weight table
\* with weights in [0, 100], the score calculate_risk returns is within
\* [0, 100] (0 .. 10000 hundredths).
C1_ScoreWithinRange ==
    pc = "done" => risk_results.score >= 0 /\ risk_results.score <= 10000

\* C1 witness: a score above 80 returned for a full input of failing results
\* and issues.
C1_Witness ==
    /\ pc = "done"
    /\ ItemsTotal = MaxRiskItems
    /\ risk_results.score > 8000

\* C2: risk_level is a total, non-overlapping function of the score: high
\* exactly when score >= 80, medium exactly when 50 <= score < 80, low exactly
\* when score < 50 (so a larger score never yields a lower level).
C2_RiskLevelPartition ==
    pc = "done" =>
        LET score == risk_locals.normalized_score
            level == risk_results.risk_level
        IN  /\ level \in {"high", "medium", "low"}
            /\ (level = "high") <=> (score[1] >= 80 * score[2])
            /\ (level = "medium") <=>
                  (score[1] >= 50 * score[2] /\ score[1] < 80 * score[2])
            /\ (level = "low") <=> (score[1] < 50 * score[2])

\* C2 witness: a score of exactly 80 is rated high.
C2_Witness ==
    /\ pc = "done"
    /\ risk_locals.normalized_score = <<80, 1>>
    /\ risk_results.risk_level = "high"

\* C2 second witness: a score of exactly 50 is rated medium.
C2_WitnessMedium ==
    /\ pc = "done"
    /\ risk_locals.normalized_score = <<50, 1>>
    /\ risk_results.risk_level = "medium"

\* C3: in every RiskResult the weighted contribution of each category is at
\* most its ceiling (deterministic 40, compliance 25, tone 15,
\* accessibility 20), before and after rounding, so their sum is at most 100.
C3_ContributionsWithinCeilings ==
    pc = "done" =>
        /\ risk_locals.deterministic_weighted[1] <= 40 * risk_locals.deterministic_weighted[2]
        /\ risk_locals.compliance_weighted[1] <= 25 * risk_locals.compliance_weighted[2]
        /\ risk_locals.tone_weighted[1] <= 15 * risk_locals.tone_weighted[2]
        /\ risk_locals.accessibility_weighted[1] <= 20 * risk_locals.accessibility_weighted[2]
        /\ risk_locals.final_score[1] <= 100 * risk_locals.final_score[2]
        /\ risk_results.breakdown.deterministic.score <= 4000
        /\ risk_results.breakdown.compliance.score <= 2500
        /\ risk_results.breakdown.tone.score <= 1500
        /\ risk_results.breakdown.accessibility.score <= 2000
        /\ \A c \in DOMAIN risk_results.breakdown :
              risk_results.breakdown[c].score <= 100 * risk_results.breakdown[c].max

\* C3 witness: several critical compliance issues under a rule of weight 100
\* bring the compliance contribution to its ceiling, 25.
C3_Witness ==
    /\ pc = "done"
    /\ Len(IssuesOf(compliance_results)) >= 2
    /\ Get(rule_weights, "font_compliance", 10) = 100
    /\ risk_locals.compliance_weighted = <<25, 1>>

(***************************************************************************)
(* SpecStatus: the two status decisions on arbitrary deterministic         *)
(* results, compliance issues and risk levels.                             *)
(***************************************************************************)
MaxStatusItems == 5

RiskLevelInputs == {[risk_level |-> l] : l \in {"low", "medium", "high"}}

\* the status decisions of the supervisor (process_email) and of the
\* orchestrator (run_qa_process, which reads the supervisor's risk_level)
decide_status ==
    /\ pc = "input"
    /\ UNCHANGED service
    /\ overall_status' =
          _determine_overall_status(deterministic_results, compliance_results,
              tone_results, accessibility_results, risk_results)
    /\ report_status' =
          _calculate_overall_status(deterministic_results,
              [risk_level |-> Get(risk_results, "risk_level", "low")])
    /\ pc' = "done"
    /\ UNCHANGED <<html_content, metadata, deterministic_results,
                   compliance_results, tone_results, accessibility_results,
                   rule_weights, risk_locals, risk_results, fix_suggestions,
                   top_issues, raised>>

InitStatus ==
    \E risk \in RiskLevelInputs :
        Start(NoHtml, <<>>, <<>>, <<>>, <<>>, <<>>, DefaultRuleWeights, risk)

NextStatus ==
    \/ \E st \in Statuses : AddDeterministic("alt_text", st, MaxStatusItems)
    \/ \E sv \in SeverityInputs : AddCompliance("font_compliance", sv, MaxStatusItems)
    \/ decide_status

SpecStatus == InitStatus /\ [][NextStatus]_vars

\* what the status properties read from the inputs
FailedCount ==
    Cardinality({i \in DOMAIN deterministic_results :
                    deterministic_results[i].status = "fail"})

CriticalCompliancePresent ==
    \E i \in DOMAIN IssuesOf(compliance_results) :
        IssuesOf(compliance_results)[i].severity = "critical"

\* C4: overall_status is fail whenever more than 3 deterministic results
\* fail, whatever the risk level; and it is never fail when at most 3 fail, no
\* compliance issue is critical and the risk level is low.  Both status
\* computations (supervisor and orchestrator) are held to it.
C4_FailOnlyWithCause ==
    pc = "done" =>
        /\ FailedCount > 3 =>
              overall_status = "fail" /\ report_status = "fail"
        /\ (FailedCount <= 3 /\ ~CriticalCompliancePresent
            /\ risk_results.risk_level = "low") =>
              overall_status # "fail" /\ report_status # "fail"

\* C4 witness: four failures at low risk without a critical issue give fail.
C4_Witness ==
    /\ pc = "done"
    /\ FailedCount = 4
    /\ ~CriticalCompliancePresent
    /\ risk_results.risk_level = "low"
    /\ overall_status = "fail"

\* C5: the supervisor's decision is the three-way function: fail if more than
\* 3 deterministic failures, or a critical compliance issue, or risk level
\* high; otherwise needs_review if any deterministic failure or risk level
\* medium; otherwise pass.
C5_StatusDecision ==
    pc = "done" =>
        overall_status =
            (IF FailedCount > 3 \/ CriticalCompliancePresent
                \/ risk_results.risk_level = "high"
             THEN "fail"
             ELSE IF FailedCount > 0 \/ risk_results.risk_level = "medium"
             THEN "needs_review"
             ELSE "pass")

\* C5 witness: one critical compliance issue gives fail with no deterministic
\* failure and low risk.
C5_Witness ==
    /\ pc = "done"
    /\ FailedCount = 0
    /\ Len(IssuesOf(compliance_results)) = 1
    /\ CriticalCompliancePresent
    /\ risk_results.risk_level = "low"
    /\ overall_status = "fail"

(***************************************************************************)
(* SpecOrder: the two orderings (fix suggestions, top issues) on loads of  *)
(* up to MaxOrderDet deterministic results and MaxOrderIssues issues.      *)
(***************************************************************************)
MaxOrderDet == 9

MaxOrderIssues == 2

\* n deterministic results, all failing, or all but the first
OrderDetInput(n, first) ==
    [i \in 1..n |->
        Result("alt_text", IF i = 1 THEN first ELSE "fail", Tag("deterministic", i))]

InitOrder ==
    \E n \in 0..MaxOrderDet, first \in Statuses :
        Start(NoHtml, <<>>, OrderDetInput(n, first), <<>>, <<>>, <<>>,
              DefaultRuleWeights, Unset)

NextOrder ==
    \/ \E sv \in SeverityInputs :
          AddCompliance("font_compliance", sv,
                        Len(deterministic_results) + MaxOrderIssues)
    \/ \E sv \in SeverityInputs :
          AddTone("spam_indicators", sv,
                  Len(deterministic_results) + MaxOrderIssues)
    \/ \E sv \in SeverityInputs :
          AddAccessibility("alt_text_quality", sv,
                           Len(deterministic_results) + MaxOrderIssues)
    \/ process_email

SpecOrder == InitOrder /\ [][NextOrder]_vars

Categories == <<"deterministic", "compliance", "tone", "accessibility">>

\* the candidates of the input, as <<category, tag, severity>>: the failing
\* deterministic results (severity high) and every issue
Candidates ==
    {<<"deterministic", deterministic_results[i].details, "high">> :
        i \in {k \in DOMAIN deterministic_results :
                  deterministic_results[k].status = "fail"}}
    \cup {<<"compliance", IssuesOf(compliance_results)[i].description,
            IssuesOf(compliance_results)[i].severity>> :
            i \in DOMAIN IssuesOf(compliance_results)}
    \cup {<<"tone", IssuesOf(tone_results)[i].description,
            IssuesOf(tone_results)[i].severity>> :
            i \in DOMAIN IssuesOf(tone_results)}
    \cup {<<"accessibility", IssuesOf(accessibility_results)[i].description,
            IssuesOf(accessibility_results)[i].severity>> :
            i \in DOMAIN IssuesOf(accessibility_results)}

RankIn(table, severity, default) ==
    IF severity \in DOMAIN table THEN table[severity] ELSE default

TopRank(severity) ==
    RankIn([critical |-> 4, high |-> 3, medium |-> 2, low |-> 1], severity, 0)

FixRank(priority) ==
    RankIn([critical |-> 1, high |-> 2, medium |-> 3, low |-> 4], priority, 3)

\* the place of an item in the concatenation deterministic, compliance,
\* tone, accessibility, read from its category and its tag
Origin(category, tag) ==
    100 * (CHOOSE c \in DOMAIN Categories : Categories[c] = category)
    + (CHOOSE k \in DOMAIN Ordinal : Tag(category, k) = tag)

\* C6: top_issues has at most 10 entries, is sorted by non-increasing
\* severity rank (critical 4 > high 3 > medium 2 > low 1), and no candidate
\* left out has a strictly higher rank than an entry that was kept.
C6_TopIssuesBoundedAndSorted ==
    (pc = "done" /\ raised = "none") =>
        /\ Len(top_issues) <= 10
        /\ \A i, j \in DOMAIN top_issues :
              i < j => TopRank(top_issues[i].severity) >= TopRank(top_issues[j].severity)
        /\ \A c \in Candidates :
              (\A i \in DOMAIN top_issues :
                  <<top_issues[i].type, top_issues[i].details>> # <<c[1], c[2]>>)
              => \A i \in DOMAIN top_issues :
                    TopRank(c[3]) <= TopRank(top_issues[i].severity)

\* C6 witness: eleven candidates, ten kept; a critical accessibility issue,
\* collected last, is listed first and a low one is left out.
C6_Witness ==
    /\ pc = "done"
    /\ raised = "none"
    /\ Cardinality(Candidates) = 11
    /\ Len(top_issues) = 10
    /\ top_issues[1].type = "accessibility"
    /\ top_issues[1].severity = "critical"
    /\ \E c \in Candidates :
          /\ c[3] = "low"
          /\ \A i \in DOMAIN top_issues : top_issues[i].details # c[2]

\* C7: the number of fix suggestions is at most the number of failing
\* deterministic results plus the compliance, tone and accessibility issues,
\* and the list is sorted ascending by priority rank (critical 1, high 2,
\* medium 3, low 4).
C7_FixesBoundedAndSorted ==
    (pc = "done" /\ raised = "none") =>
        /\ Len(fix_suggestions) <=
              FailedCount + Len(IssuesOf(compliance_results))
              + Len(IssuesOf(tone_results)) + Len(IssuesOf(accessibility_results))
        /\ \A i, j \in DOMAIN fix_suggestions :
              i < j => FixRank(fix_suggestions[i].priority)
                          <= FixRank(fix_suggestions[j].priority)

\* C7 witness: a passing result gets no suggestion, and a critical tone
\* issue is moved in front of the deterministic failures, a low one last.
C7_Witness ==
    /\ pc = "done"
    /\ raised = "none"
    /\ FailedCount >= 2
    /\ FailedCount < Len(deterministic_results)
    /\ Len(fix_suggestions) = FailedCount + Len(IssuesOf(tone_results))
    /\ Len(IssuesOf(tone_results)) = 2
    /\ fix_suggestions[1].type = "tone"
    /\ fix_suggestions[1].priority = "critical"
    /\ fix_suggestions[Len(fix_suggestions)].priority = "low"

\* C8: both orderings are stable: among fix suggestions of equal priority
\* rank, and among top issues of equal severity rank, the order is the
\* concatenation order deterministic, compliance, tone, accessibility, and
\* within a category the order in which the items were emitted.
C8_OrderingsStable ==
    (pc = "done" /\ raised = "none") =>
        /\ \A i, j \in DOMAIN fix_suggestions :
              (i < j /\ FixRank(fix_suggestions[i].priority)
                          = FixRank(fix_suggestions[j].priority))
              => Origin(fix_suggestions[i].type, fix_suggestions[i].description)
                    < Origin(fix_suggestions[j].type, fix_suggestions[j].description)
        /\ \A i, j \in DOMAIN top_issues :
              (i < j /\ TopRank(top_issues[i].severity)
                          = TopRank(top_issues[j].severity))
              => Origin(top_issues[i].type, top_issues[i].details)
                    < Origin(top_issues[j].type, top_issues[j].details)

\* C8 witness: a critical tone issue is moved to the front, and behind it
\* the ties of rank high keep their order, within the deterministic failures
\* and across categories (an accessibility issue after them), in both lists.
C8_Witness ==
    /\ pc = "done"
    /\ raised = "none"
    /\ FailedCount = 3
    /\ Len(top_issues) = 5
    /\ top_issues[1].severity = "critical"
    /\ top_issues[1].type = "tone"
    /\ \A i \in 2..4 : top_issues[i].details = Tag("deterministic", i - 1)
    /\ top_issues[5].type = "accessibility"
    /\ top_issues[5].severity = "high"
    /\ Len(fix_suggestions) = 5
    /\ fix_suggestions[1].type = "tone"
    /\ \A i \in 2..4 : fix_suggestions[i].description = Tag("deterministic", i - 1)
    /\ fix_suggestions[5].type = "accessibility"
    /\ fix_suggestions[5].priority = "high"

(***************************************************************************)
(* SpecFix: fix generation for one item of any category, any rule or test  *)
(* name, carrying at most MaxFixFields of the optional fields.             *)
(***************************************************************************)
MaxFixFields == 1

OptionalFields ==
    {"element", "url", "missing_field", "expected_font", "expected_color",
     "spacing_rule", "expected_logo", "spam_text", "grammar_issue",
     "current_text"}

\* every name of the template table, and one that is not in it
FixRuleInputs == DOMAIN fix_templates \cup {"unlisted_rule"}

\* the record d restricted to the keys in keep, with the optional fields
\* in given added
FixItem(d, keep, given) ==
    [k \in (DOMAIN d \cap keep) \cup given |->
        IF k \in given THEN "given " \o k ELSE d[k]]

InitFix ==
    \E c \in DOMAIN Categories, rule \in FixRuleInputs,
       keep \in SUBSET {"rule", "description", "severity"},
       given \in {g \in SUBSET OptionalFields : Cardinality(g) <= MaxFixFields} :
        LET category == Categories[c]
            test  == FixItem(Result(rule, "fail", Tag(category, 1)),
                             {"test_name", "status", "details"}, given)
            issue == FixItem(Issue(rule, Tag(category, 1), "high"), keep, given)
            only(cat) == IF category = cat THEN <<issue>> ELSE <<>>
        IN  /\ category = "deterministic" => keep = {}
            /\ Start(NoHtml, <<>>,
                     IF category = "deterministic" THEN <<test>> ELSE <<>>,
                     only("compliance"), only("tone"), only("accessibility"),
                     DefaultRuleWeights, Unset)

NextFix == process_email

SpecFix == InitFix /\ [][NextFix]_vars

\* the one item of the input
FixInput ==
    IF deterministic_results # <<>> THEN deterministic_results[1]
    ELSE IF IssuesOf(compliance_results) # <<>> THEN IssuesOf(compliance_results)[1]
    ELSE IF IssuesOf(tone_results) # <<>> THEN IssuesOf(tone_results)[1]
    ELSE IssuesOf(accessibility_results)[1]

SafeLiterals ==
    {"element", "link", "field", "Arial", "#0085FF", "padding", "logo", "text",
     "issue"}

\* C9: fix generation never raises for a missing field: whatever the rule
\* or test name (in the template table or not) and whichever optional fields
\* the item lacks, a suggestion is produced, and every placeholder of the
\* chosen template is bound to the item's field or to a literal default.
C9_FixNeverRaises ==
    pc = "done" =>
        /\ raised = "none"
        /\ Len(fix_suggestions) = 1
        /\ LET args == fix_suggestions[1].suggestion.args
           IN  \A f \in DOMAIN args :
                  IF f \in DOMAIN FixInput
                  THEN args[f] = FixInput[f]
                  ELSE args[f] \in SafeLiterals

\* C9 witness: a failing template_meta result that carries no optional field
\* gets its suggestion with the literal "field" for missing_field.
C9_Witness ==
    /\ pc = "done"
    /\ raised = "none"
    /\ deterministic_results # <<>>
    /\ DOMAIN FixInput = {"test_name", "status", "details"}
    /\ FixInput.test_name = "template_meta"
    /\ Len(fix_suggestions) = 1
    /\ fix_suggestions[1].suggestion.args = [missing_field |-> "field"]

(***************************************************************************)
(* SpecDet: run_all_deterministic_tests on markup of up to MaxHtmlElements *)
(* elements and on metadata with any of its keys absent, empty, blank or   *)
(* set.                                                                    *)
(***************************************************************************)
MaxHtmlElements == 1

MetadataKeys == {"subject", "preheader", "template_name", "locale"}

\* the values of a metadata key: empty, whitespace only, a text
MetadataValues == {"", " ", "Hello"}

\* the metadata dictionaries: any keys absent, and at most two different
\* values among the keys that are present
MetadataInputs ==
    UNION {{m \in [keys -> MetadataValues] :
               Cardinality({m[k] : k \in keys}) <= 2} :
           keys \in SUBSET MetadataKeys}

HtmlLiterals == {"width=", "style=", "background-color:", "bgcolor="}

\* an <img>: its alt attribute absent, empty, blank or a text; without
\* width and height, with width only, or with both
ImageInputs ==
    LET img == [src |-> "a.png"]
        sized(i) == {i, SetDefaults(i, [width |-> "600"]),
                     SetDefaults(i, [width |-> "600", height |-> "80"])}
    IN  UNION {sized(i) :
               i \in {img} \cup {SetDefaults(img, [alt |-> a]) : a \in {"", " ", "Logo"}}}

\* an <a>: without href, or with one
AnchorInputs ==
    {[name |-> "top"] : x \in {1}}
    \cup {[href |-> h] : h \in {"", "http://a", "https://a", "mailto:a", "#top",
                                "javascript:x", "/relative"}}

\* a text node: the length of its text after strip()
TextInputs == {0, LongCopyLimit, LongCopyLimit + 1}

HtmlElements ==
    Len(html_content.images) + Len(html_content.anchors) + Len(html_content.texts)

AddImage(img, limit) ==
    /\ pc = "input"
    /\ UNCHANGED service
    /\ HtmlElements < limit
    /\ html_content' = [html_content EXCEPT !.images = Append(@, img)]
    /\ UNCHANGED <<metadata, deterministic_results, compliance_results,
                   tone_results, accessibility_results, rule_weights,
                   risk_locals, risk_results, overall_status, report_status,
                   fix_suggestions, top_issues, raised, pc>>

AddAnchor(a, limit) ==
    /\ pc = "input"
    /\ UNCHANGED service
    /\ HtmlElements < limit
    /\ html_content' = [html_content EXCEPT !.anchors = Append(@, a)]
    /\ UNCHANGED <<metadata, deterministic_results, compliance_results,
                   tone_results, accessibility_results, rule_weights,
                   risk_locals, risk_results, overall_status, report_status,
                   fix_suggestions, top_issues, raised, pc>>

AddText(stripped, limit) ==
    /\ pc = "input"
    /\ UNCHANGED service
    /\ HtmlElements < limit
    /\ html_content' = [html_content EXCEPT !.texts = Append(@, stripped)]
    /\ UNCHANGED <<metadata, deterministic_results, compliance_results,
                   tone_results, accessibility_results, rule_weights,
                   risk_locals, risk_results, overall_status, report_status,
                   fix_suggestions, top_issues, raised, pc>>

\* the call of run_all_deterministic_tests on the email
run_deterministic_tests ==
    /\ pc = "input"
    /\ UNCHANGED service
    /\ deterministic_results' = run_all_deterministic_tests(html_content, metadata)
    /\ pc' = "done"
    /\ UNCHANGED <<html_content, metadata, compliance_results, tone_results,
                   accessibility_results, rule_weights, risk_locals,
                   risk_results, overall_status, report_status,
                   fix_suggestions, top_issues, raised>>

InitDet ==
    \E meta \in MetadataInputs, literals \in SUBSET HtmlLiterals :
        Start([NoHtml EXCEPT !.literals = literals], meta, Unset, <<>>, <<>>,
              <<>>, DefaultRuleWeights, Unset)

NextDet ==
    \/ \E img \in ImageInputs : AddImage(img, MaxHtmlElements)
    \/ \E a \in AnchorInputs : AddAnchor(a, MaxHtmlElements)
    \/ \E stripped \in TextInputs : AddText(stripped, MaxHtmlElements)
    \/ run_deterministic_tests

SpecDet == InitDet /\ [][NextDet]_vars

TestNames ==
    {"alt_text", "links", "subject_line", "preheader", "template_meta", "width",
     "background_color", "image_dimensions", "long_copy"}

\* C10: for every markup and metadata, each of the nine deterministic checks
\* contributes at least one result, so the result list is never empty and
\* holds a result for every test name.
C10_EveryCheckReports ==
    pc = "done" =>
        /\ deterministic_results # <<>>
        /\ \A name \in TestNames :
              \E i \in DOMAIN deterministic_results :
                  deterministic_results[i].test_name = name

\* C10 witness: markup without images, links or text and empty metadata:
\* the placeholders of alt_text, links, image_dimensions and long_copy pass.
C10_Witness ==
    /\ pc = "done"
    /\ HtmlElements = 0
    /\ metadata = <<>>
    /\ Len(deterministic_results) = 10
    /\ \A name \in {"alt_text", "links", "image_dimensions", "long_copy"} :
          \E i \in DOMAIN deterministic_results :
              /\ deterministic_results[i].test_name = name
              /\ deterministic_results[i].status = "pass"

(***************************************************************************)
(* SpecMarkup: run_all_deterministic_tests on markup of up to              *)
(* MaxMarkupElements elements, with empty metadata.                        *)
(***************************************************************************)
MaxMarkupElements == 3

InitMarkup ==
    Start(NoHtml, <<>>, Unset, <<>>, <<>>, <<>>, DefaultRuleWeights, Unset)

NextMarkup ==
    \/ \E img \in ImageInputs : AddImage(img, MaxMarkupElements)
    \/ \E a \in AnchorInputs : AddAnchor(a, MaxMarkupElements)
    \/ \E stripped \in TextInputs : AddText(stripped, MaxMarkupElements)
    \/ run_deterministic_tests

SpecMarkup == InitMarkup /\ [][NextMarkup]_vars

\* the results of one check, in the order they were returned
ResultsOf(test_name) ==
    LET at == Kept([i \in DOMAIN deterministic_results |->
                       deterministic_results[i].test_name = test_name])
    IN  [k \in DOMAIN at |-> deterministic_results[at[k]]]

Blank(d, key) == key \notin DOMAIN d \/ d[key] \in {"", " "}

\* C16: check_alt_text returns exactly one result per image element, in
\* document order, or a single pass placeholder when there is no image; the
\* result of an image is fail exactly when its alt attribute is absent, empty
\* or whitespace-only, and pass otherwise.
C16_AltTextPerImage ==
    pc = "done" =>
        LET results == ResultsOf("alt_text")
            images  == html_content.images
        IN  IF images = <<>>
            THEN Len(results) = 1 /\ results[1].status = "pass"
            ELSE /\ Len(results) = Len(images)
                 /\ \A i \in DOMAIN images :
                       results[i].status =
                           (IF Blank(images[i], "alt") THEN "fail" ELSE "pass")

\* C16 witness: three images, the first with a text, the second with a
\* whitespace-only alt, the third without alt: pass, fail, fail in that order.
C16_Witness ==
    /\ pc = "done"
    /\ Len(html_content.images) = 3
    /\ "alt" \in DOMAIN html_content.images[1]
    /\ html_content.images[1].alt = "Logo"
    /\ "alt" \in DOMAIN html_content.images[2]
    /\ html_content.images[2].alt = " "
    /\ "alt" \notin DOMAIN html_content.images[3]
    /\ [i \in 1..3 |-> ResultsOf("alt_text")[i].status] = <<"pass", "fail", "fail">>

AcceptedPrefix(href) ==
    \E p \in {"http://", "https://", "mailto:", "#"} :
        Len(href) >= Len(p) /\ SubSeq(href, 1, Len(p)) = p

\* C17: check_links returns exactly one result per anchor that has an href,
\* or a single pass placeholder when there is none; the result is fail
\* exactly when the href starts with none of http://, https://, mailto: and
\* #, and pass otherwise.
C17_LinksPerHref ==
    pc = "done" =>
        LET results == ResultsOf("links")
            with    == Kept([i \in DOMAIN html_content.anchors |->
                                "href" \in DOMAIN html_content.anchors[i]])
        IN  IF with = <<>>
            THEN Len(results) = 1 /\ results[1].status = "pass"
            ELSE /\ Len(results) = Len(with)
                 /\ \A k \in DOMAIN with :
                       results[k].status =
                           (IF AcceptedPrefix(html_content.anchors[with[k]].href)
                            THEN "pass" ELSE "fail")

\* C17 witness: an anchor without href between a javascript: link and a
\* fragment link: two results, fail then pass.
C17_Witness ==
    /\ pc = "done"
    /\ Len(html_content.anchors) = 3
    /\ "href" \in DOMAIN html_content.anchors[1]
    /\ html_content.anchors[1].href = "javascript:x"
    /\ "href" \notin DOMAIN html_content.anchors[2]
    /\ "href" \in DOMAIN html_content.anchors[3]
    /\ html_content.anchors[3].href = "#top"
    /\ Len(ResultsOf("links")) = 2
    /\ ResultsOf("links")[1].status = "fail"
    /\ ResultsOf("links")[2].status = "pass"

\* C18: check_subject_line and check_preheader each return exactly one
\* result for every metadata mapping; it is fail exactly when the key is
\* absent or its value is empty or whitespace-only, and pass otherwise.
C18_SubjectAndPreheader ==
    pc = "done" =>
        \A key \in {"subject", "preheader"} :
            LET results == ResultsOf(IF key = "subject" THEN "subject_line" ELSE key)
            IN  /\ Len(results) = 1
                /\ results[1].status =
                      (IF Blank(metadata, key) THEN "fail" ELSE "pass")

\* C18 witness: a subject that is set passes while the preheader, whitespace
\* only, fails.
C18_Witness ==
    /\ pc = "done"
    /\ DOMAIN metadata = {"subject", "preheader"}
    /\ metadata.subject = "Hello"
    /\ metadata.preheader = " "
    /\ ResultsOf("subject_line")[1].status = "pass"
    /\ ResultsOf("preheader")[1].status = "fail"

\* (rule_weight / 100) * severity_weight summed over items, in hundredths:
\* names are the items' rule or test names, factors their severity weights
RawSum(names, factors, default) ==
    SumSeq([i \in DOMAIN names |->
               (IF names[i] \in DOMAIN rule_weights
                THEN rule_weights[names[i]] ELSE default) * factors[i]])

SeverityFactor(severity) ==
    CASE severity = "critical" -> 10
      [] severity = "high" -> 5
      [] severity = "low" -> 1
      [] OTHER -> 3

\* the documented contribution equals the fraction x:
\* (raw_score / max(raw_max, 1)) * ceiling when raw_max > 0, else 0
Normalized(x, raw_score, raw_max, ceiling) ==
    IF raw_max > 0
    THEN x[1] * (IF raw_max > 100 THEN raw_max ELSE 100) = raw_score * ceiling * x[2]
    ELSE x[1] = 0

\* C20: every category contribution follows the normalization: raw_score is
\* the sum of (rule_weight/100) x severity_weight over the flagged items,
\* raw_max the sum of (rule_weight/100) x worst-case severity weight (high = 5
\* for deterministic, critical = 10 for the heuristic categories), and the
\* contribution is (raw_score / max(raw_max, 1)) x ceiling when raw_max > 0
\* and 0 otherwise; unconfigured rules weigh 5 (deterministic) or 10.
C20_ContributionFormula ==
    pc = "done" =>
        LET det    == deterministic_results
            failed == Kept([i \in DOMAIN det |-> det[i].status = "fail"])
            dnames == [i \in DOMAIN det |-> det[i].test_name]
            issue_names(results) ==
                [i \in DOMAIN IssuesOf(results) |-> IssuesOf(results)[i].rule]
            issue_factors(results) ==
                [i \in DOMAIN IssuesOf(results) |->
                    SeverityFactor(IssuesOf(results)[i].severity)]
            worst(results) == [i \in DOMAIN IssuesOf(results) |-> 10]
            heuristic(x, results, ceiling) ==
                Normalized(x,
                    RawSum(issue_names(results), issue_factors(results), 10),
                    RawSum(issue_names(results), worst(results), 10), ceiling)
        IN  /\ Normalized(risk_locals.deterministic_weighted,
                  RawSum([k \in DOMAIN failed |-> dnames[failed[k]]],
                         [k \in DOMAIN failed |-> 5], 5),
                  RawSum(dnames, [i \in DOMAIN det |-> 5], 5), 40)
            /\ heuristic(risk_locals.compliance_weighted, compliance_results, 25)
            /\ heuristic(risk_locals.tone_weighted, tone_results, 15)
            /\ heuristic(risk_locals.accessibility_weighted, accessibility_results, 20)

\* C20 witness: one failing deterministic result under an unconfigured name
\* (raw_score 0.25, raw_max 0.25, floor 1) contributes 10; a medium tone
\* issue under an unconfigured rule (0.3 of 1.0) contributes 4.5; compliance
\* and accessibility, without items, contribute 0.
C20_Witness ==
    /\ pc = "done"
    /\ rule_weights = DefaultRuleWeights
    /\ Len(deterministic_results) = 1
    /\ Len(IssuesOf(tone_results)) = 1
    /\ IssuesOf(tone_results)[1].severity = "medium"
    /\ risk_locals.deterministic_weighted = <<10, 1>>
    /\ risk_locals.tone_weighted = <<9, 2>>
    /\ risk_locals.compliance_weighted = <<0, 1>>
    /\ risk_locals.accessibility_weighted = <<0, 1>>

(***************************************************************************)
(* The heuristic evaluators (compliance_agent.py, tone_agent.py,           *)
(* accessibility_agent.py)                                                 *)
(*                                                                         *)
(* Beyond what the deterministic checks read, the markup is: the fragments *)
(* of the raw string the literal searches can hit (literals), the heading  *)
(* tags, the numbers of list containers and list items, the inline style   *)
(* declarations, the text of each anchor, and the text content as          *)
(* sentences of words.                                                     *)
(***************************************************************************)
Fold ==
    [A |-> "a", B |-> "b", C |-> "c", D |-> "d", E |-> "e", F |-> "f",
     G |-> "g", H |-> "h", I |-> "i", J |-> "j", K |-> "k", L |-> "l",
     M |-> "m", N |-> "n", O |-> "o", P |-> "p", Q |-> "q", R |-> "r",
     S |-> "s", T |-> "t", U |-> "u", V |-> "v", W |-> "w", X |-> "x",
     Y |-> "y", Z |-> "z"]

\* s.lower()
RECURSIVE Lower(_)
Lower(s) ==
    IF s = "" THEN ""
    ELSE LET c == SubSeq(s, 1, 1)
         IN  (IF c \in DOMAIN Fold THEN Fold[c] ELSE c)
                 \o Lower(SubSeq(s, 2, Len(s)))

\* sub in s
Contains(s, sub) ==
    \E i \in 1..(Len(s) - Len(sub) + 1) : SubSeq(s, i, i + Len(sub) - 1) = sub

\* s.count(c) for a single character c
Count(s, c) == Cardinality({i \in 1..Len(s) : SubSeq(s, i, i) = c})

\* s.isupper(): some cased character, and no lowercase one
IsUpper(s) ==
    /\ \E i \in 1..Len(s) : SubSeq(s, i, i) \in DOMAIN Fold
    /\ \A i \in 1..Len(s) : SubSeq(s, i, i) \notin Range(Fold)

\* sep.join(strings)
RECURSIVE Join(_, _)
Join(strings, sep) ==
    IF strings = <<>> THEN ""
    ELSE IF Len(strings) = 1 THEN strings[1]
    ELSE strings[1] \o sep \o Join(Tail(strings), sep)

EndsWith(s, p) == Len(s) >= Len(p) /\ SubSeq(s, Len(s) - Len(p) + 1, Len(s)) = p

\* needle in html_content
Occurs(html, needle) == \E l \in html.literals : Contains(l, needle)

\* needle in html_content.lower()
OccursLower(html, needle) == \E l \in html.literals : Contains(Lower(l), needle)

(***************************************************************************)
(* ComplianceAgent                                                         *)
(***************************************************************************)
default_brand_rules ==
    [font_family |-> "Arial", cta_color |-> "#0085FF",
     header_logo |-> "brandlogo.png",
     spacing |-> [top_padding |-> "24px", bottom_padding |-> "24px"]]

\* the file is absent (open raises FileNotFoundError, which is caught), is
\* no YAML (safe_load raises, which is not), or holds a mapping
_load_brand_rules(source) ==
    CASE source.kind = "absent" ->
            [raised |-> "none", rules |-> default_brand_rules]
      [] source.kind = "malformed" -> [raised |-> "YAMLError", rules |-> Unset]
      [] OTHER -> [raised |-> "none", rules |-> source.content]

_check_font_compliance(html, brand) ==
    LET brand_font == Get(brand, "font_family", "Arial")
    IN  IF ~Occurs(html, "font-family: " \o brand_font)
        THEN <<Issue("font_compliance",
                     "Font does not match brand guidelines. Expected: "
                         \o brand_font, "medium")>>
        ELSE <<>>

_check_cta_color_compliance(html, brand) ==
    LET brand_cta_color == Get(brand, "cta_color", "#0085FF")
    IN  IF ~Occurs(html, brand_cta_color)
        THEN <<Issue("cta_color_compliance",
                     "CTA button color does not match brand guidelines. Expected: "
                         \o brand_cta_color, "medium")>>
        ELSE <<>>

_check_spacing_compliance(html, brand) ==
    LET spacing_rules == Get(brand, "spacing", <<>>)
        top_padding == Get(spacing_rules, "top_padding", "24px")
        bottom_padding == Get(spacing_rules, "bottom_padding", "24px")
    IN  (IF ~Occurs(html, top_padding)
         THEN <<Issue("spacing_compliance",
                      "Top padding does not match brand guidelines. Expected: "
                          \o top_padding, "low")>>
         ELSE <<>>)
        \o (IF ~Occurs(html, bottom_padding)
            THEN <<Issue("spacing_compliance",
                         "Bottom padding does not match brand guidelines. Expected: "
                             \o bottom_padding, "low")>>
            ELSE <<>>)

\* _check_logo_placement reporting a missing logo as critical
_check_logo_placement_critical(html, brand) ==
    LET brand_logo == Get(brand, "header_logo", "brandlogo.png")
    IN  IF ~Occurs(html, brand_logo)
        THEN <<Issue("logo_placement",
                     "Brand logo not found. Expected: " \o brand_logo, "critical")>>
        ELSE <<>>

_check_logo_placement(html, brand) ==
    LET brand_logo == Get(brand, "header_logo", "brandlogo.png")
    IN  IF ~Occurs(html, brand_logo)
        THEN <<Issue("logo_placement",
                     "Brand logo not found. Expected: " \o brand_logo, "medium")>>
        ELSE <<>>

_check_header_footer_consistency(html) ==
    (IF ~OccursLower(html, "<header") /\ ~OccursLower(html, "<div class='header'")
     THEN <<Issue("header_consistency",
                  "Header section not found or inconsistent", "low")>>
     ELSE <<>>)
    \o (IF ~OccursLower(html, "<footer") /\ ~OccursLower(html, "<div class='footer'")
        THEN <<Issue("footer_consistency",
                     "Footer section not found or inconsistent", "low")>>
        ELSE <<>>)

\* ComplianceAgent.analyze
compliance_analyze(html, brand) ==
    AgentResult("compliance",
        _check_font_compliance(html, brand)
        \o _check_cta_color_compliance(html, brand)
        \o _check_spacing_compliance(html, brand)
        \o _check_logo_placement(html, brand)
        \o _check_header_footer_consistency(html))

(***************************************************************************)
(* ToneAgent                                                               *)
(***************************************************************************)
spam_keywords ==
    <<"urgent", "act now", "limited time", "free", "guarantee",
      "no obligation", "click here", "buy now", "instant", "miracle">>

complex_sentence_indicators ==
    <<"however", "nevertheless", "moreover", "furthermore", "consequently",
      "therefore", "thus", "hence", "accordingly", "notwithstanding">>

ExclamationLimit == 2

AllCapsLength == 10

ComplexLimit == 2

PassiveLimit == 10

\* the elements of s at the positions flagged
Select(s, flags) == LET keep == Kept(flags) IN [k \in DOMAIN keep |-> s[keep[k]]]

_check_subject_for_spam(subject) ==
    LET subject_lower == Lower(subject)
        found_spam_keywords ==
            Select(spam_keywords,
                   [i \in DOMAIN spam_keywords |->
                       Contains(subject_lower, spam_keywords[i])])
    IN  (IF found_spam_keywords # <<>>
         THEN <<Issue("spam_indicators",
                      "Spam keywords detected in subject: "
                          \o Join(found_spam_keywords, ", "), "high")>>
         ELSE <<>>)
        \o (IF Count(subject, "!") > ExclamationLimit
            THEN <<Issue("spam_indicators",
                         "Too many exclamation marks in subject", "medium")>>
            ELSE <<>>)
        \o (IF IsUpper(subject) /\ Len(subject) > AllCapsLength
            THEN <<Issue("spam_indicators", "Subject line is all caps", "medium")>>
            ELSE <<>>)

\* re.split(r'[.!?]+', text_content): the sentences, each the words between
\* two terminators
_check_complex_sentences(sentences) ==
    LET text(i) == Join(sentences[i], " ")
        complex_count(i) ==
            CountTrue([j \in DOMAIN complex_sentence_indicators |->
                          Contains(Lower(text(i)), complex_sentence_indicators[j])])
        flagged == Kept([i \in DOMAIN sentences |-> complex_count(i) > ComplexLimit])
    IN  [k \in DOMAIN flagged |->
            Issue("complex_sentences",
                  "Sentence contains too many complex connectors: "
                      \o SubSeq(text(flagged[k]), 1, Min(50, Len(text(flagged[k]))))
                      \o "...", "low")]

\* a word one of the three patterns matches: \b\w+ed\b, \bbeen\b, \bbeing\b
IsPassive(word) ==
    \/ (Len(word) > 2 /\ EndsWith(Lower(word), "ed"))
    \/ Lower(word) \in {"been", "being"}

_check_clarity(sentences) ==
    LET passive_count ==
            SumSeq([i \in DOMAIN sentences |->
                       CountTrue([j \in DOMAIN sentences[i] |->
                                     IsPassive(sentences[i][j])])])
    IN  IF passive_count > PassiveLimit
        THEN <<Issue("clarity",
                     "Text contains excessive passive voice constructions", "low")>>
        ELSE <<>>

\* re.findall(r'\b(\w+)\s+\1\b', ..., re.IGNORECASE) within one sentence:
\* the first word of every pair of equal neighbours, pairs not overlapping
RECURSIVE RepeatedIn(_)
RepeatedIn(words) ==
    IF Len(words) < 2 THEN <<>>
    ELSE IF Lower(words[1]) = Lower(words[2])
    THEN <<words[1]>> \o RepeatedIn(SubSeq(words, 3, Len(words)))
    ELSE RepeatedIn(Tail(words))

RECURSIVE Concat(_)
Concat(seqs) == IF seqs = <<>> THEN <<>> ELSE Head(seqs) \o Concat(Tail(seqs))

\* list(set(words)) in a process whose sets of strings iterate in `order`
SetOrder(words, order) ==
    Select(order, [i \in DOMAIN order |-> order[i] \in Range(words)])

_check_grammar(sentences, order) ==
    LET repeated_words ==
            Concat([i \in DOMAIN sentences |-> RepeatedIn(sentences[i])])
    IN  IF repeated_words # <<>>
        THEN <<Issue("grammar",
                     "Repeated words found: "
                         \o Join(SetOrder(repeated_words, order), ", "),
                     "low")>>
        ELSE <<>>

\* metadata.get("subject") without the default: None when the key is absent
tone_subject_no_default(meta) == Get(meta, "subject", "None")

tone_subject(meta) == Get(meta, "subject", "")

\* ToneAgent.analyze; a subject of None has no lower()
tone_analyze(html, meta, order) ==
    LET text_content == html.sentences
        subject == tone_subject(meta)
    IN  IF subject = "None"
        THEN [raised |-> "AttributeError", result |-> Unset]
        ELSE [raised |-> "none",
              result |->
                  AgentResult("tone",
                      _check_subject_for_spam(subject)
                      \o _check_complex_sentences(text_content)
                      \o _check_clarity(text_content)
                      \o _check_grammar(text_content, order))]

(***************************************************************************)
(* AccessibilityAgent                                                      *)
(***************************************************************************)
AltTextLimit == 125

max_link_text_length == 80

_check_alt_text_quality(html) ==
    LET images == html.images
        alt_text(i) == Strip(Get(images[i], "alt", ""))
        flagged ==
            Kept([i \in DOMAIN images |->
                     \/ alt_text(i) = ""
                     \/ Lower(alt_text(i)) \in {"image", "photo", "picture", "graphic"}
                     \/ Len(alt_text(i)) > AltTextLimit])
        one(alt) ==
            IF alt = ""
            THEN Issue("alt_text_quality",
                       "Image missing descriptive ALT text", "high")
            ELSE IF Lower(alt) \in {"image", "photo", "picture", "graphic"}
            THEN Issue("alt_text_quality",
                       "Image has non-descriptive ALT text: '" \o alt \o "'",
                       "medium")
            ELSE Issue("alt_text_quality", "ALT text is too long", "low")
    IN  [k \in DOMAIN flagged |-> one(alt_text(flagged[k]))]

_check_semantic_html(html) ==
    LET headings == html.headings
        h1_tags == CountTrue([i \in DOMAIN headings |-> headings[i] = "h1"])
    IN  (IF headings = <<>>
         THEN <<Issue("semantic_html", "No heading elements found", "medium")>>
         ELSE IF h1_tags = 0
         THEN <<Issue("semantic_html", "Missing main heading (h1)", "medium")>>
         ELSE IF h1_tags > 1
         THEN <<Issue("semantic_html", "Multiple h1 headings found", "low")>>
         ELSE <<>>)
        \o (IF html.list_items > 0 /\ html.lists = 0
            THEN <<Issue("semantic_html",
                         "List items found without proper list container",
                         "low")>>
            ELSE <<>>)

_check_link_text_clarity(html) ==
    LET anchors == html.anchors
        with_href == Kept([i \in DOMAIN anchors |-> "href" \in DOMAIN anchors[i]])
        link_text(k) == Strip(Get(anchors[with_href[k]], "text", ""))
        flagged ==
            Kept([k \in DOMAIN with_href |->
                     \/ link_text(k) = ""
                     \/ Lower(link_text(k)) \in {"click here", "read more", "link", "here"}
                     \/ Len(link_text(k)) > max_link_text_length])
        one(text) ==
            IF text = ""
            THEN Issue("link_text_clarity", "Link with no text content", "high")
            ELSE IF Lower(text) \in {"click here", "read more", "link", "here"}
            THEN Issue("link_text_clarity",
                       "Non-descriptive link text: '" \o text \o "'", "medium")
            ELSE Issue("link_text_clarity", "Link text is too long", "low")
    IN  [j \in DOMAIN flagged |-> one(link_text(flagged[j]))]

\* a declaration `property: #hex`; color\s*:\s*#... also matches inside
\* background-color: #...
_check_color_contrast(html) ==
    LET styles == html.styles
        color_styles ==
            Kept([i \in DOMAIN styles |->
                     styles[i].hex /\ styles[i].property \in {"color", "background-color"}])
        background_styles ==
            Kept([i \in DOMAIN styles |->
                     styles[i].hex
                     /\ styles[i].property \in {"background", "background-color"}])
    IN  IF color_styles # <<>> /\ background_styles = <<>>
        THEN <<Issue("color_contrast",
                     "Text color specified without background color - contrast cannot be verified",
                     "low")>>
        ELSE <<>>

\* AccessibilityAgent.analyze
accessibility_analyze(html) ==
    AgentResult("accessibility",
        _check_alt_text_quality(html)
        \o _check_semantic_html(html)
        \o _check_link_text_clarity(html)
        \o _check_color_contrast(html))

(***************************************************************************)
(* The service: the orchestrator is constructed once, when api/endpoints   *)
(* is imported, and then serves run_qa requests; rules are updated through *)
(* PUT /rules/{rule_id} in the meantime.                                   *)
(***************************************************************************)
\* _load_rule_weights without its except clause
_load_rule_weights_uncaught(store) ==
    IF store.readable
    THEN [raised |-> "none", weights |-> store.rules]
    ELSE [raised |-> "OperationalError", weights |-> Unset]

\* the rows of the table as name -> weight, or the built-in table when the
\* session or the query raises
_load_rule_weights(store) ==
    IF store.readable
    THEN [raised |-> "none", weights |-> store.rules]
    ELSE [raised |-> "none", weights |-> DefaultRuleWeights]

email_id == "test-email-123"

Evaluators == {"deterministic", "compliance", "tone", "accessibility"}

request == <<html_content, metadata>>

results ==
    <<deterministic_results, compliance_results, tone_results,
      accessibility_results>>

outputs ==
    <<risk_locals, risk_results, overall_status, report_status,
      fix_suggestions, top_issues>>

\* the orders in which a process may iterate over a set of these words
Orders(words) ==
    {o \in [1..Cardinality(words) -> words] : \A w \in words : \E i \in DOMAIN o : o[i] = w}

\* the words the documents repeat
RepeatedWords == {"The", "is"}

\* AgentOrchestrator() -> SupervisorAgent() -> ComplianceAgent(),
\* RiskScoringAgent(), in a fresh interpreter (whose string hashing is
\* seeded at random); an exception leaves the service without orchestrator
construct ==
    /\ pc = "boot"
    /\ LET brand == _load_brand_rules(brand_source)
           loaded == _load_rule_weights(rule_store)
       IN  IF brand.raised # "none"
           THEN /\ raised' = brand.raised
                /\ pc' = "failed"
                /\ UNCHANGED <<brand_rules, rule_weights>>
           ELSE IF loaded.raised # "none"
           THEN /\ raised' = loaded.raised
                /\ pc' = "failed"
                /\ UNCHANGED <<brand_rules, rule_weights>>
           ELSE /\ brand_rules' = brand.rules
                /\ rule_weights' = loaded.weights
                /\ pc' = "idle"
                /\ UNCHANGED raised
    /\ hash_seed' \in Orders(RepeatedWords)
    /\ UNCHANGED <<request, results, outputs, rule_store, brand_source,
                   started_with, pending, reports>>

\* PUT /rules/{rule_id}: the row's weight is set and committed
update_rule(name, weight) ==
    /\ pc \in {"idle", "running"}
    /\ rule_store.readable
    /\ name \in DOMAIN rule_store.rules
    /\ rule_store.rules[name] # weight
    /\ rule_store' = [rule_store EXCEPT !.rules[name] = weight]
    /\ UNCHANGED <<request, results, outputs, rule_weights, raised, pc,
                   brand_source, brand_rules, started_with, hash_seed,
                   pending, reports>>

\* POST /emails/{email_id}/qa enters run_qa_process
run_qa(limit) ==
    /\ pc = "idle"
    /\ Len(reports) < limit
    /\ pc' = "running"
    /\ pending' = Evaluators
    /\ started_with' = rule_store
    /\ UNCHANGED <<request, results, outputs, rule_weights, raised,
                   rule_store, brand_source, brand_rules, hash_seed, reports>>

\* run_all_deterministic_tests(html_content, metadata)
run_deterministic ==
    /\ pc = "running"
    /\ "deterministic" \in pending
    /\ deterministic_results' = run_all_deterministic_tests(html_content, metadata)
    /\ pending' = pending \ {"deterministic"}
    /\ UNCHANGED <<request, compliance_results, tone_results,
                   accessibility_results, outputs, rule_weights, raised, pc,
                   rule_store, brand_source, brand_rules, started_with,
                   hash_seed, reports>>

\* self.compliance_agent.analyze(email_id, html_content, metadata)
run_compliance ==
    /\ pc = "running"
    /\ "compliance" \in pending
    /\ compliance_results' = compliance_analyze(html_content, brand_rules)
    /\ pending' = pending \ {"compliance"}
    /\ UNCHANGED <<request, deterministic_results, tone_results,
                   accessibility_results, outputs, rule_weights, raised, pc,
                   rule_store, brand_source, brand_rules, started_with,
                   hash_seed, reports>>

\* self.tone_agent.analyze(email_id, html_content, metadata); an exception
\* ends the request
run_tone ==
    /\ pc = "running"
    /\ "tone" \in pending
    /\ LET analysis == tone_analyze(html_content, metadata, hash_seed)
       IN  IF analysis.raised # "none"
           THEN /\ raised' = analysis.raised
                /\ pc' = "done"
                /\ pending' = {}
                /\ UNCHANGED tone_results
           ELSE /\ tone_results' = analysis.result
                /\ pending' = pending \ {"tone"}
                /\ UNCHANGED <<raised, pc>>
    /\ UNCHANGED <<request, deterministic_results, compliance_results,
                   accessibility_results, outputs, rule_weights, rule_store,
                   brand_source, brand_rules, started_with, hash_seed, reports>>

\* an accessibility evaluator that appends to the tone evaluator's list
run_accessibility_shared_list ==
    /\ pc = "running"
    /\ "accessibility" \in pending
    /\ accessibility_results' =
          AgentResult("accessibility",
              IssuesOf(tone_results) \o IssuesOf(accessibility_analyze(html_content)))
    /\ pending' = pending \ {"accessibility"}
    /\ UNCHANGED <<request, deterministic_results, compliance_results,
                   tone_results, outputs, rule_weights, raised, pc, rule_store,
                   brand_source, brand_rules, started_with, hash_seed, reports>>

\* self.accessibility_agent.analyze(email_id, html_content, metadata)
run_accessibility ==
    /\ pc = "running"
    /\ "accessibility" \in pending
    /\ accessibility_results' = accessibility_analyze(html_content)
    /\ pending' = pending \ {"accessibility"}
    /\ UNCHANGED <<request, deterministic_results, compliance_results,
                   tone_results, outputs, rule_weights, raised, pc, rule_store,
                   brand_source, brand_rules, started_with, hash_seed, reports>>

\* the dictionary process_email returns
consolidated_results(det, comp, tone, acc, risk, fixes) ==
    [overall_status |-> _determine_overall_status(det, comp, tone, acc, risk),
     risk_score |-> Get(risk, "score", 0),
     risk_level |-> Get(risk, "risk_level", "low"),
     compliance_analysis |-> comp,
     tone_analysis |-> tone,
     accessibility_analysis |-> acc,
     deterministic_results |-> det,
     fix_suggestions |-> fixes,
     top_issues |-> _extract_top_issues(det, comp, tone, acc),
     score_breakdown |-> Get(risk, "breakdown", <<>>)]

\* the report run_qa_process returns, without generated_at
consolidated_report(det, agentic_results) ==
    [email_id |-> email_id,
     deterministic_tests |-> det,
     agentic_analysis |-> agentic_results,
     overall_status |-> _calculate_overall_status(det, agentic_results),
     risk_score |-> Get(agentic_results, "risk_score", 0)]

\* the join: the rest of process_email once the four results are there,
\* and the rest of run_qa_process
consolidate ==
    /\ pc = "running"
    /\ pending = {}
    /\ LET all == all_agent_results
           locals == calculate_risk_locals(all, rule_weights)
           risk == calculate_risk_result(locals, issue_counts_of(all))
           fixes == generate_fixes(all, risk)
           held == after_generate_fixes(all)
           agentic ==
               consolidated_results(held.deterministic, held.compliance,
                   held.tone, held.accessibility, risk, fixes.fixes)
           report == consolidated_report(held.deterministic, agentic)
       IN  /\ deterministic_results' = held.deterministic
           /\ compliance_results' = held.compliance
           /\ tone_results' = held.tone
           /\ accessibility_results' = held.accessibility
           /\ IF fixes.raised # "none"
              THEN /\ raised' = fixes.raised
                   /\ UNCHANGED <<outputs, reports>>
              ELSE /\ risk_locals' = locals
                   /\ risk_results' = risk
                   /\ fix_suggestions' = fixes.fixes
                   /\ overall_status' = agentic.overall_status
                   /\ top_issues' = agentic.top_issues
                   /\ report_status' = report.overall_status
                   /\ reports' = Append(reports, report)
                   /\ UNCHANGED raised
    /\ pc' = "done"
    /\ UNCHANGED <<request, rule_weights, rule_store, brand_source,
                   brand_rules, started_with, hash_seed, pending>>

\* the response is sent and the service waits for the next request
respond ==
    /\ pc = "done"
    /\ raised = "none"
    /\ pc' = "idle"
    /\ UNCHANGED <<request, results, outputs, rule_weights, raised,
                   rule_store, brand_source, brand_rules, started_with,
                   hash_seed, pending, reports>>

\* the service process is stopped and started again
restart ==
    /\ pc = "done"
    /\ raised = "none"
    /\ pc' = "boot"
    /\ UNCHANGED <<request, results, outputs, rule_weights, raised,
                   rule_store, brand_source, brand_rules, started_with,
                   hash_seed, pending, reports>>

\* run_qa_process as the code runs it: the four evaluators one after the
\* other, then the join
run_qa_process(html, meta, brand, weights, order) ==
    LET det == run_all_deterministic_tests(html, meta)
        comp == compliance_analyze(html, brand)
        tone == tone_analyze(html, meta, order)
        acc == accessibility_analyze(html)
        all == [compliance |-> comp, tone |-> tone.result,
                accessibility |-> acc, deterministic |-> det]
        risk == calculate_risk(all, weights)
        fixes == generate_fixes(all, risk)
        held == after_generate_fixes(all)
    IN  IF tone.raised # "none" THEN [raised |-> tone.raised]
        ELSE IF fixes.raised # "none" THEN [raised |-> fixes.raised]
        ELSE [raised |-> "none",
              report |->
                  consolidated_report(held.deterministic,
                      consolidated_results(held.deterministic, held.compliance,
                                           held.tone, held.accessibility, risk,
                                           fixes.fixes))]

(***************************************************************************)
(* SpecPipeline: one request through run_qa_process, the four evaluators   *)
(* scheduled in any order.                                                 *)
(***************************************************************************)
Document(images, anchors, texts, literals, headings, lists, list_items, styles, sentences) ==
    [images |-> images, anchors |-> anchors, texts |-> texts,
     literals |-> literals, headings |-> headings, lists |-> lists,
     list_items |-> list_items, styles |-> styles, sentences |-> sentences]

\* the empty string
EmptyDocument == Document(<<>>, <<>>, <<>>, {}, <<>>, 0, 0, <<>>, <<>>)

\* <html><body><h1>Hello</h1></body></html>
HelloDocument ==
    Document(<<>>, <<>>, <<5>>, {}, <<"h1">>, 0, 0, <<>>, <<<<"Hello">>>>)

\* a mail that follows the built-in brand profile
BrandedDocument ==
    Document(<<[src |-> "brandlogo.png", alt |-> "Logo", width |-> "600",
                height |-> "80"]>>,
             <<[href |-> "https://a", text |-> "Shop the sale"]>>,
             <<13, 12>>,
             {"width=", "style=", "background-color:", "font-family: Arial",
              "background-color: #0085FF", "padding: 24px", "brandlogo.png",
              "<HEADER", "<div class='footer'"},
             <<"h1", "h2">>, 1, 2,
             <<[property |-> "background-color", hex |-> TRUE]>>,
             <<<<"Shop", "the", "sale">>, <<"Two", "days", "only">>>>)

\* a mail with repeated words, a placeholder ALT text, a generic link text,
\* a link without href, list items without a list and a text colour
RepeatingDocument ==
    Document(<<[src |-> "a.png", alt |-> "Image"], [src |-> "b.png"]>>,
             <<[href |-> "/relative", text |-> "Click here"], [name |-> "top"],
               [href |-> "#top"]>>,
             <<201>>,
             {"style=", "color: #333"},
             <<"h2", "h3">>, 0, 2,
             <<[property |-> "color", hex |-> TRUE],
               [property |-> "background", hex |-> FALSE]>>,
             <<<<"The", "the", "offer">>, <<"this", "is", "is", "is">>>>)

\* a mail in the passive voice with a sentence of three connectors
PassiveDocument ==
    Document(<<>>, <<>>, <<200>>, {"bgcolor="},
             <<"h1", "h1">>, 0, 0, <<>>,
             <<<<"However", "it", "was", "shipped", "therefore", "and",
                 "thus", "delivered">>,
               <<"Packed", "sealed", "stamped", "sorted", "loaded", "moved",
                 "being", "been", "unloaded", "Red">>>>)

DocumentInputs ==
    {EmptyDocument, HelloDocument, BrandedDocument, RepeatingDocument,
     PassiveDocument}

\* the metadata of a request: any of the four keys absent and the others
\* empty or a text; a subject that reads like spam; a subject of None
PipelineMetadataInputs ==
    UNION {[keys -> {""}] \cup [keys -> {"Hello"}] : keys \in SUBSET MetadataKeys}
    \cup {[subject |-> "FREE!!! ACT NOW"], [subject |-> "None"]}

DefaultStore == [readable |-> TRUE, rules |-> DefaultRuleWeights]

AbsentSource == [kind |-> "absent"]

\* the service before its construction, with the request it will be sent
Boot(html, meta, store, source) ==
    /\ html_content = html
    /\ metadata = meta
    /\ deterministic_results = Unset
    /\ compliance_results = AgentResult("compliance", <<>>)
    /\ tone_results = AgentResult("tone", <<>>)
    /\ accessibility_results = AgentResult("accessibility", <<>>)
    /\ rule_weights = Unset
    /\ risk_locals = Unset
    /\ risk_results = Unset
    /\ overall_status = "unset"
    /\ report_status = "unset"
    /\ fix_suggestions = Unset
    /\ top_issues = Unset
    /\ raised = "none"
    /\ pc = "boot"
    /\ rule_store = store
    /\ brand_source = source
    /\ brand_rules = Unset
    /\ started_with = store
    /\ hash_seed = Unset
    /\ pending = {}
    /\ reports = <<>>

\* the requests the service is sent
MaxRequests == 1

InitPipeline ==
    \E html \in DocumentInputs, meta \in PipelineMetadataInputs :
        Boot(html, meta, DefaultStore, AbsentSource)

NextPipeline ==
    \/ construct
    \/ run_qa(MaxRequests)
    \/ run_deterministic
    \/ run_compliance
    \/ run_tone
    \/ run_accessibility
    \/ consolidate

SpecPipeline == InitPipeline /\ [][NextPipeline]_vars

\* C12: the report does not depend on the order in which the deterministic
\* runner and the three heuristic evaluators ran: whatever the schedule,
\* the report of a finished request is the one the four produce when run
\* one after the other on the request, and each result a finished evaluator
\* holds is its own result on the request, whoever ran before it.
C12_ScheduleIndependent ==
    LET sequential ==
            run_qa_process(html_content, metadata, brand_rules, rule_weights,
                           hash_seed)
    IN  /\ pc = "running" =>
            /\ "deterministic" \notin pending =>
                   deterministic_results =
                       run_all_deterministic_tests(html_content, metadata)
            /\ "compliance" \notin pending =>
                   compliance_results =
                       compliance_analyze(html_content, brand_rules)
            /\ "tone" \notin pending =>
                   tone_results =
                       tone_analyze(html_content, metadata, hash_seed).result
            /\ "accessibility" \notin pending =>
                   accessibility_results = accessibility_analyze(html_content)
        /\ pc = "done" =>
            /\ raised = sequential.raised
            /\ raised = "none" => reports = <<sequential.report>>

\* C12 witness: a finished request whose tone and accessibility evaluators
\* both reported issues and whose report is the sequential one.
C12_Witness ==
    /\ pc = "done"
    /\ Len(reports) = 1
    /\ html_content = RepeatingDocument
    /\ IssuesOf(tone_results) # <<>>
    /\ IssuesOf(accessibility_results) # <<>>
    /\ IssuesOf(compliance_results) # <<>>
    /\ reports[1].agentic_analysis.tone_analysis = tone_results

\* the metadata with the empty string under every key it lacks
WithEmptyDefaults(meta) ==
    SetDefaults(meta, [k \in MetadataKeys |-> ""])

\* C14: the pipeline never raises on missing or empty input: for every
\* markup, the empty string included, and every metadata mapping with any of
\* subject, preheader, template_name, locale absent (its values strings),
\* nothing is raised, a finished request has returned a report, and the
\* report is the one of the same request with the empty string under every
\* absent key.
C14_NeverRaisesOnMissingInput ==
    (\A k \in DOMAIN metadata : metadata[k] # "None") =>
        /\ raised = "none"
        /\ pc = "done" =>
              /\ Len(reports) = 1
              /\ reports[1] =
                    run_qa_process(html_content, WithEmptyDefaults(metadata),
                                   brand_rules, rule_weights, hash_seed).report

\* C14 witness: the empty markup with no metadata key at all went through
\* every evaluator, the aggregator, the decision and the fix generator.
C14_Witness ==
    /\ pc = "done"
    /\ raised = "none"
    /\ html_content = EmptyDocument
    /\ metadata = <<>>
    /\ Len(reports) = 1
    /\ Len(deterministic_results) = 10
    /\ risk_results # Unset
    /\ fix_suggestions # <<>>
    /\ overall_status = "fail"

\* the status of every result of one check, in order
StatusesOf(test_name) ==
    [i \in DOMAIN ResultsOf(test_name) |-> ResultsOf(test_name)[i].status]

\* C19: for the markup <html><body><h1>Hello</h1></body></html> and metadata
\* with subject, preheader, template_name and locale all empty, alt_text and
\* links pass, subject_line, preheader, template_meta (twice), width and
\* background_color fail, so at least 5 deterministic results fail and the
\* report's overall_status is fail.
C19_HelloScenario ==
    (/\ pc = "done"
     /\ html_content = HelloDocument
     /\ metadata = [k \in MetadataKeys |-> ""]) =>
        /\ StatusesOf("alt_text") = <<"pass">>
        /\ StatusesOf("links") = <<"pass">>
        /\ StatusesOf("subject_line") = <<"fail">>
        /\ StatusesOf("preheader") = <<"fail">>
        /\ StatusesOf("template_meta") = <<"fail", "fail">>
        /\ StatusesOf("width") = <<"fail">>
        /\ StatusesOf("background_color") = <<"fail">>
        /\ FailedCount >= 5
        /\ Len(reports) = 1
        /\ reports[1].overall_status = "fail"
        /\ reports[1].deterministic_tests = deterministic_results

\* C19 witness: the scenario's request is finished, with six failing
\* results and a report that says fail.
C19_Witness ==
    /\ pc = "done"
    /\ html_content = HelloDocument
    /\ metadata = [k \in MetadataKeys |-> ""]
    /\ FailedCount = 6
    /\ report_status = "fail"
    /\ reports[1].overall_status = "fail"

(***************************************************************************)
(* SpecRuns: the same request sent twice, to the same process or to the    *)
(* service after a restart, the configuration untouched in between.        *)
(***************************************************************************)
MaxRuns == 2

InitRuns ==
    \E html \in DocumentInputs, meta \in {<<>>, [k \in MetadataKeys |-> "Hello"]} :
        Boot(html, meta, DefaultStore, AbsentSource)

NextRuns ==
    \/ construct
    \/ run_qa(MaxRuns)
    \/ run_deterministic
    \/ run_compliance
    \/ run_tone
    \/ run_accessibility
    \/ consolidate
    \/ respond
    \/ restart

SpecRuns == InitRuns /\ [][NextRuns]_vars

\* C13: two runs of run_qa_process on the same (email_id, html, metadata)
\* under the same configuration return reports that are identical in every
\* field other than generated_at, the description text and the order of
\* every issue included.
C13_RunsIdentical ==
    Len(reports) = MaxRuns => reports[1] = reports[2]

\* C13 witness: two finished runs on the same request whose grammar issues
\* list the same repeated words in different orders.
C13_Witness ==
    /\ Len(reports) = MaxRuns
    /\ reports[1].deterministic_tests = reports[2].deterministic_tests
    /\ reports[1].risk_score = reports[2].risk_score
    /\ \E i \in DOMAIN reports[1].agentic_analysis.tone_analysis.issues :
          LET first == reports[1].agentic_analysis.tone_analysis.issues[i]
              second == reports[2].agentic_analysis.tone_analysis.issues[i]
          IN  /\ first.rule = "grammar"
              /\ second.rule = "grammar"
              /\ first.description = "Repeated words found: The, is"
              /\ second.description = "Repeated words found: is, The"

(***************************************************************************)
(* SpecWeights: rule weights are updated through the administrative        *)
(* interface while the service evaluates requests.                         *)
(***************************************************************************)
\* the rules of the table and the weights an administrator gives them
StoredRules == {"subject_line", "font_compliance"}

WeightInputs == {10, 100}

InitWeights ==
    \E html \in {HelloDocument, RepeatingDocument}, w \in [StoredRules -> WeightInputs] :
        Boot(html, <<>>, [readable |-> TRUE, rules |-> w], AbsentSource)

NextWeights ==
    \/ construct
    \/ \E name \in StoredRules, weight \in WeightInputs : update_rule(name, weight)
    \/ run_qa(MaxRuns)
    \/ run_deterministic
    \/ run_compliance
    \/ run_tone
    \/ run_accessibility
    \/ consolidate
    \/ respond

SpecWeights == InitWeights /\ [][NextWeights]_vars

\* C11: rule-weight updates made by the administrative interface take
\* effect on the next evaluation: an evaluation scores with the weights that
\* were committed when it started, those of an update committed before it
\* started included, and not those of an update committed while it ran.
C11_UpdatesTakeEffect ==
    (pc = "done" /\ raised = "none") =>
        risk_results = calculate_risk(all_agent_results, started_with.rules)

\* C11 witness: an evaluation that started after an update was committed
\* has scored with the weights loaded when the service was constructed.
C11_Witness ==
    /\ pc = "done"
    /\ raised = "none"
    /\ rule_weights # started_with.rules
    /\ risk_results = calculate_risk(all_agent_results, rule_weights)
    /\ risk_results.score
          # calculate_risk(all_agent_results, started_with.rules).score

(***************************************************************************)
(* SpecConfig: the service is constructed and serves one request, with the *)
(* brand profile and the rule table present, partial or missing.           *)
(***************************************************************************)
\* config/brand_rules.yaml: absent, a whole profile, a profile of one key,
\* or a file that is no YAML
BrandSourceInputs ==
    {AbsentSource,
     [kind |-> "mapping",
      content |-> [font_family |-> "Helvetica", cta_color |-> "#FF0000",
                   header_logo |-> "logo.svg",
                   spacing |-> [top_padding |-> "16px", bottom_padding |-> "8px"]]],
     [kind |-> "mapping", content |-> [font_family |-> "Helvetica"]],
     [kind |-> "malformed"]}

\* the rule table: the seeded rows, rows for two checks of the pipeline, no
\* rows, or a database that cannot be reached
RuleStoreInputs ==
    {DefaultStore,
     [readable |-> TRUE, rules |-> [n \in StoredRules |-> 100]],
     [readable |-> TRUE, rules |-> <<>>],
     [readable |-> FALSE, rules |-> <<>>]}

InitConfig ==
    \E html \in {HelloDocument, BrandedDocument}, source \in BrandSourceInputs,
       store \in RuleStoreInputs :
        Boot(html, <<>>, store, source)

NextConfig ==
    \/ construct
    \/ run_qa(MaxRequests)
    \/ run_deterministic
    \/ run_compliance
    \/ run_tone
    \/ run_accessibility
    \/ consolidate

SpecConfig == InitConfig /\ [][NextConfig]_vars

\* C15: missing configuration never surfaces as a failure: with the brand
\* profile absent the compliance evaluator works with the built-in profile
\* (Arial, #0085FF, brandlogo.png, 24px/24px), with the rule table
\* unreadable the aggregator works with the built-in weight table, and in
\* both cases construction and evaluation complete without an exception.
C15_MissingConfigurationFallsBack ==
    /\ (brand_source.kind = "absent" /\ pc # "boot") =>
          /\ pc # "failed"
          /\ raised = "none"
          /\ brand_rules =
                [font_family |-> "Arial", cta_color |-> "#0085FF",
                 header_logo |-> "brandlogo.png",
                 spacing |-> [top_padding |-> "24px", bottom_padding |-> "24px"]]
          /\ pc = "done" =>
                /\ Len(reports) = 1
                /\ html_content = BrandedDocument =>
                      IssuesOf(compliance_results) = <<>>
    /\ (~rule_store.readable /\ brand_source.kind # "malformed" /\ pc # "boot") =>
          /\ pc # "failed"
          /\ raised = "none"
          /\ rule_weights = DefaultRuleWeights
          /\ pc = "done" =>
                /\ Len(reports) = 1
                /\ risk_results = calculate_risk(all_agent_results, DefaultRuleWeights)

\* C15 witness: with neither the brand profile nor the rule table there,
\* the service was constructed and has returned a report for a mail that
\* follows the built-in profile.
C15_Witness ==
    /\ pc = "done"
    /\ raised = "none"
    /\ brand_source.kind = "absent"
    /\ ~rule_store.readable
    /\ html_content = BrandedDocument
    /\ brand_rules.font_family = "Arial"
    /\ rule_weights = DefaultRuleWeights
    /\ IssuesOf(compliance_results) = <<>>
    /\ Len(reports) = 1

(***************************************************************************)
(* The deterministic category of the aggregator: what enters raw_score and *)
(* raw_max, and what a further passing result does to the contribution.    *)
(***************************************************************************)
\* rule_weights.get(test_name, 5.0) summed over the results at the positions
TestWeight(tests, positions, weights) ==
    SumSeq([k \in DOMAIN positions |->
               Get(weights, tests[positions[k]].test_name,
                   DeterministicDefaultWeight)])

\* x < y for two fractions
FracLess(x, y) == x[1] * y[2] < y[1] * x[2]

\* the deterministic contribution calculate_risk computes for a list of tests
deterministic_weighted(tests, weights) ==
    weighted_score(deterministic_score(tests, weights),
                   deterministic_max(tests, weights), DeterministicCeiling)

\* the tests with one more, passing, result of the given test
WithPassing(tests, test_name) ==
    Append(tests, Result(test_name, "pass", Tag("deterministic", Len(tests) + 1)))

\* C21 (as amended): raw_max is accumulated over every deterministic result
\* and raw_score over the failed ones only, so the deterministic contribution
\* is 40 x (weight of the failed results / weight of all results) whenever
\* raw_max >= 1, and 40 x raw_score while raw_max < 1.  It is 40 only when
\* raw_max >= 1 and every result of non-zero weight fails.  A further passing
\* result never raises it, and lowers it exactly when some failure has
\* entered raw_score, the added result has a non-zero weight and raw_max
\* exceeds 1 with it.
C21_DeterministicContribution ==
    pc = "done" =>
        LET det    == deterministic_results
            all    == [i \in DOMAIN det |-> i]
            failed == Kept([i \in DOMAIN det |-> det[i].status = "fail"])
            fw     == TestWeight(det, failed, rule_weights)
            aw     == TestWeight(det, all, rule_weights)
            l      == risk_locals
        IN  /\ l.deterministic_max = 5 * aw
            /\ l.deterministic_score = 5 * fw
            /\ l.deterministic_max >= 100 =>
                  l.deterministic_weighted = Frac(40 * fw, aw)
            /\ l.deterministic_max < 100 =>
                  l.deterministic_weighted = Frac(40 * l.deterministic_score, 100)
            /\ l.deterministic_weighted = <<40, 1>> =>
                  /\ l.deterministic_max >= 100
                  /\ \A i \in DOMAIN det :
                        det[i].status = "fail"
                        \/ Get(rule_weights, det[i].test_name,
                               DeterministicDefaultWeight) = 0
            /\ \A n \in RiskTestNames :
                  LET more  == WithPassing(det, n)
                      after == deterministic_weighted(more, rule_weights)
                      added == Get(rule_weights, n, DeterministicDefaultWeight)
                  IN  /\ ~FracLess(l.deterministic_weighted, after)
                      /\ FracLess(after, l.deterministic_weighted) <=>
                            /\ l.deterministic_score > 0
                            /\ added > 0
                            /\ deterministic_max(more, rule_weights) > 100

\* C21 witness: one failed and one passed result under weight 100 each: the
\* contribution is 20, and a further passing result lowers it.
C21_Witness ==
    /\ pc = "done"
    /\ Len(deterministic_results) = 2
    /\ deterministic_results[1].status = "fail"
    /\ deterministic_results[2].status = "pass"
    /\ risk_locals.deterministic_max = 1000
    /\ risk_locals.deterministic_weighted = <<20, 1>>
    /\ FracLess(deterministic_weighted(WithPassing(deterministic_results, "alt_text"),
                                       rule_weights),
                risk_locals.deterministic_weighted)

\* C21 second witness: a failed result of weight 100 and a passed one of
\* weight 0 give a contribution of 40.
C21_WitnessFull ==
    /\ pc = "done"
    /\ Len(deterministic_results) = 2
    /\ \E i \in DOMAIN deterministic_results : deterministic_results[i].status = "pass"
    /\ risk_locals.deterministic_weighted = <<40, 1>>

\* C21 as stated: the contribution is 40 x (weight of the failed results /
\* weight of all results) whenever raw_max >= 1, it is 40 only when every
\* result fails, and it strictly decreases when a passing result is added to
\* a list that contains a failure.
C21_AsStated ==
    pc = "done" =>
        LET det    == deterministic_results
            all    == [i \in DOMAIN det |-> i]
            failed == Kept([i \in DOMAIN det |-> det[i].status = "fail"])
            l      == risk_locals
        IN  /\ l.deterministic_max >= 100 =>
                  l.deterministic_weighted =
                      Frac(40 * TestWeight(det, failed, rule_weights),
                           TestWeight(det, all, rule_weights))
            /\ l.deterministic_weighted = <<40, 1>> =>
                  \A i \in DOMAIN det : det[i].status = "fail"
            /\ failed # <<>> =>
                  \A n \in RiskTestNames :
                      FracLess(deterministic_weighted(WithPassing(det, n), rule_weights),
                               l.deterministic_weighted)

(***************************************************************************)
(* The severity the consumers of a result or an issue give it.             *)
(***************************************************************************)
\* the issues of the three heuristic categories, by category
HeuristicIssues ==
    [compliance |-> IssuesOf(compliance_results), tone |-> IssuesOf(tone_results),
     accessibility |-> IssuesOf(accessibility_results)]

\* the severity of the issue of the category that carries the description
SeverityOfTagged(category, description) ==
    LET issues == HeuristicIssues[category]
    IN  issues[CHOOSE i \in DOMAIN issues : issues[i].description = description].severity

\* the number of failing results and of issues of the severity
CountedUnder(severity) ==
    (IF severity = "high" THEN FailedCount ELSE 0)
    + SumSeq([c \in 1..3 |->
                Cardinality({i \in DOMAIN HeuristicIssues[Categories[c + 1]] :
                                HeuristicIssues[Categories[c + 1]][i].severity = severity})])

\* C22: a failing deterministic result is high for every consumer: the
\* aggregator adds its rule weight times the weight of high to raw_score and
\* counts it under high in issue_counts, top_issues lists it with severity
\* high and its fix suggestion has priority high; an entry of top_issues or
\* a fix suggestion that comes from a compliance, tone or accessibility
\* issue carries that issue's own severity.
C22_DeterministicFailuresAreHigh ==
    (pc = "done" /\ raised = "none") =>
        LET det    == deterministic_results
            failed == Kept([i \in DOMAIN det |-> det[i].status = "fail"])
        IN  /\ risk_locals.deterministic_score =
                  severity_weights["high"] * TestWeight(det, failed, rule_weights)
            /\ \A sv \in SeverityInputs :
                  CounterAt(risk_results.issue_counts, sv) = CountedUnder(sv)
            /\ \A i \in DOMAIN top_issues :
                  IF top_issues[i].type = "deterministic"
                  THEN /\ top_issues[i].severity = "high"
                       /\ \E k \in DOMAIN failed :
                             det[failed[k]].details = top_issues[i].details
                  ELSE top_issues[i].severity =
                          SeverityOfTagged(top_issues[i].type, top_issues[i].details)
            /\ \A k \in DOMAIN failed :
                  \E i \in DOMAIN fix_suggestions :
                      /\ fix_suggestions[i].type = "deterministic"
                      /\ fix_suggestions[i].description = det[failed[k]].details
            /\ \A i \in DOMAIN fix_suggestions :
                  IF fix_suggestions[i].type = "deterministic"
                  THEN fix_suggestions[i].priority = "high"
                  ELSE fix_suggestions[i].priority =
                          SeverityOfTagged(fix_suggestions[i].type,
                                           fix_suggestions[i].description)
            /\ \A c \in {"compliance", "tone", "accessibility"} :
                  \A j \in DOMAIN HeuristicIssues[c] :
                      \E i \in DOMAIN fix_suggestions :
                          /\ fix_suggestions[i].type = c
                          /\ fix_suggestions[i].description =
                                HeuristicIssues[c][j].description

\* C22 witness: two failing results next to a low tone issue and a critical
\* compliance issue: both results are counted and listed as high, and each
\* issue keeps its severity in top_issues and as its fix's priority.
C22_Witness ==
    /\ pc = "done"
    /\ raised = "none"
    /\ FailedCount = 2
    /\ Len(IssuesOf(tone_results)) = 1
    /\ IssuesOf(tone_results)[1].severity = "low"
    /\ Len(IssuesOf(compliance_results)) = 1
    /\ IssuesOf(compliance_results)[1].severity = "critical"
    /\ CounterAt(risk_results.issue_counts, "high") = 2
    /\ Len(top_issues) = 4
    /\ top_issues[2].type = "deterministic" /\ top_issues[2].severity = "high"
    /\ top_issues[4].type = "tone" /\ top_issues[4].severity = "low"
    /\ fix_suggestions[1].type = "compliance"
    /\ fix_suggestions[1].priority = "critical"
    /\ fix_suggestions[3].type = "deterministic"
    /\ fix_suggestions[3].priority = "high"

(***************************************************************************)
(* Severities outside the table of severity weights.                       *)
(***************************************************************************)
\* the result with medium written for every severity that is none of the four
AsMedium(agent_result) ==
    LET issues == IssuesOf(agent_result)
    IN  AgentResult(agent_result.agent,
            [i \in DOMAIN issues |->
                Issue(issues[i].rule, issues[i].description,
                      IF issues[i].severity \in Severities
                      THEN issues[i].severity ELSE "medium")])

\* the issues of the three heuristic categories whose severity is none of
\* the four, as <<category, position>>
Unrecognized ==
    {<<c, i>> \in {"compliance", "tone", "accessibility"} \X (1..16) :
        /\ i \in DOMAIN HeuristicIssues[c]
        /\ HeuristicIssues[c][i].severity \notin Severities}

\* C23: an issue whose severity is none of critical, high, medium, low is
\* scored as a medium one: its part of raw_score is its rule weight times 3,
\* every accumulator, every contribution, the score and the risk level are
\* those of the same input with medium written for that severity, nothing
\* is raised, and the score is within [0, 100].
C23_UnrecognizedSeverityScoresAsMedium ==
    pc = "done" =>
        /\ raised = "none"
        /\ risk_results.score >= 0 /\ risk_results.score <= 10000
        /\ \A u \in Unrecognized :
              issue_item_score(HeuristicIssues[u[1]][u[2]], rule_weights) =
                  3 * Get(rule_weights, HeuristicIssues[u[1]][u[2]].rule,
                          HeuristicDefaultWeight)
        /\ LET as_medium ==
                   calculate_risk(
                       [compliance |-> AsMedium(compliance_results),
                        tone |-> AsMedium(tone_results),
                        accessibility |-> AsMedium(accessibility_results),
                        deterministic |-> deterministic_results],
                       rule_weights)
           IN  /\ risk_results.score = as_medium.score
               /\ risk_results.risk_level = as_medium.risk_level
               /\ risk_results.breakdown = as_medium.breakdown
        /\ risk_locals.compliance_score =
              SumSeq([i \in DOMAIN IssuesOf(compliance_results) |->
                        Get(rule_weights, IssuesOf(compliance_results)[i].rule,
                            HeuristicDefaultWeight)
                        * (CASE IssuesOf(compliance_results)[i].severity = "critical" -> 10
                             [] IssuesOf(compliance_results)[i].severity = "high" -> 5
                             [] IssuesOf(compliance_results)[i].severity = "low" -> 1
                             [] OTHER -> 3)])

\* C23 witness: a single compliance issue of an unrecognized severity under
\* a rule of weight 100: raw_score 3, raw_max 10, contribution 7.5.
C23_Witness ==
    /\ pc = "done"
    /\ raised = "none"
    /\ ItemsTotal = 1
    /\ Unrecognized = {<<"compliance", 1>>}
    /\ Get(rule_weights, "font_compliance", HeuristicDefaultWeight) = 100
    /\ risk_locals.compliance_score = 300
    /\ risk_locals.compliance_max = 1000
    /\ risk_results.score = 750

(***************************************************************************)
(* What an evaluation leaves of the values it was given.                   *)
(***************************************************************************)
\* C24: an evaluation has no side effect on what it consumes: the rule
\* weights are, after calculate_risk, the table that was loaded, and the
\* deterministic results and the three issue lists of the report, and the
\* lists the evaluators' callers still hold, are element for element, field
\* for field and in the same order those the evaluators returned.
C24_NoSideEffectOnInputs ==
    LET det  == run_all_deterministic_tests(html_content, metadata)
        comp == compliance_analyze(html_content, brand_rules)
        tone == tone_analyze(html_content, metadata, hash_seed).result
        acc  == accessibility_analyze(html_content)
    IN  /\ pc \in {"idle", "running", "done"} =>
              rule_weights = _load_rule_weights(rule_store).weights
        /\ (pc = "done" /\ raised = "none") =>
              LET report == reports[Len(reports)]
              IN  /\ report.deterministic_tests = det
                  /\ report.agentic_analysis.deterministic_results = det
                  /\ report.agentic_analysis.compliance_analysis = comp
                  /\ report.agentic_analysis.tone_analysis = tone
                  /\ report.agentic_analysis.accessibility_analysis = acc
                  /\ deterministic_results = det
                  /\ compliance_results = comp
                  /\ tone_results = tone
                  /\ accessibility_results = acc
                  /\ \A i \in DOMAIN report.deterministic_tests :
                        DOMAIN report.deterministic_tests[i] =
                            {"test_name", "status", "details"}

\* C24 witness: a finished request in which a suggestion was rendered with
\* a placeholder default (missing_field of a failed template_meta result)
\* and the suggestions were reordered, while the failed result in the report
\* has no such field.
C24_Witness ==
    /\ pc = "done"
    /\ raised = "none"
    /\ Len(reports) = 1
    /\ \E i \in DOMAIN fix_suggestions :
          /\ fix_suggestions[i].issue = "template_meta"
          /\ fix_suggestions[i].suggestion.args = [missing_field |-> "field"]
    /\ \E i \in DOMAIN reports[1].deterministic_tests :
          /\ reports[1].deterministic_tests[i].test_name = "template_meta"
          /\ reports[1].deterministic_tests[i].status = "fail"
          /\ "missing_field" \notin DOMAIN reports[1].deterministic_tests[i]
    /\ fix_suggestions # generated_fixes(all_agent_results)
    /\ IssuesOf(reports[1].agentic_analysis.tone_analysis) # <<>>

(***************************************************************************)
(* The identifiers of the built-in weight table and those of the items.    *)
(***************************************************************************)
\* the test_name values the deterministic checks write into their results
\* and the rule values the three evaluators write into their issues
EmittableNames ==
    {"alt_text", "links", "subject_line", "preheader", "template_meta", "width",
     "background_color", "image_dimensions", "long_copy"}
    \cup {"font_compliance", "cta_color_compliance", "spacing_compliance",
          "logo_placement", "header_consistency", "footer_consistency"}
    \cup {"spam_indicators", "complex_sentences", "clarity", "grammar"}
    \cup {"alt_text_quality", "semantic_html", "link_text_clarity", "color_contrast"}

\* the identifiers of the items of the evaluation
ItemNames ==
    {deterministic_results[i].test_name : i \in DOMAIN deterministic_results}
    \cup UNION {{HeuristicIssues[c][i].rule : i \in DOMAIN HeuristicIssues[c]} :
                  c \in {"compliance", "tone", "accessibility"}}

\* C25: the built-in weight table is keyed by the identifiers the items
\* carry: when it is the table in use, every key of it is a test_name or a
\* rule that some evaluator can emit.
C25_DefaultKeysAreEmitted ==
    (pc \in {"idle", "running", "done"} /\ ~rule_store.readable) =>
        \A k \in DOMAIN rule_weights : k \in EmittableNames

\* C25 witness: a finished evaluation under the built-in table with failed
\* results and issues, every one of them under an identifier of the
\* evaluators and none under a key of the table, so that the risk result is
\* the one an empty table gives.
C25_Witness ==
    /\ pc = "done"
    /\ raised = "none"
    /\ ~rule_store.readable
    /\ rule_weights = DefaultRuleWeights
    /\ FailedCount > 0
    /\ IssuesOf(compliance_results) # <<>>
    /\ ItemNames \subseteq EmittableNames
    /\ ItemNames \cap DOMAIN rule_weights = {}
    /\ risk_results = calculate_risk(all_agent_results, <<>>)

(***************************************************************************)
(* The status of the supervisor and the status of the orchestrator.        *)
(***************************************************************************)
\* C26: the two status computations agree: for every list of deterministic
\* results, every list of compliance issues of any severity and every risk
\* level, the overall_status at the top of the report equals the
\* overall_status under agentic_analysis.
C26_StatusComputationsAgree ==
    pc = "done" => report_status = overall_status

\* C26 witness: one critical compliance issue, no failed result and a low
\* risk level: fail under agentic_analysis, pass at the top of the report.
C26_Witness ==
    /\ pc = "done"
    /\ FailedCount = 0
    /\ CriticalCompliancePresent
    /\ Len(IssuesOf(compliance_results)) = 1
    /\ risk_results.risk_level = "low"
    /\ overall_status = "fail"
    /\ report_status = "pass"

(***************************************************************************)
(* SpecRounding: the aggregator on results and issues whose contributions  *)
(* add up to a score between two hundredths.                               *)
(***************************************************************************)
MaxRoundingItems == 4

\* rows of the rule table for the two test names and two rules of this
\* specification, or the built-in table
RoundingWeightInputs ==
    {[alt_text |-> 1, links |-> 20, spam_indicators |-> 7, alt_text_quality |-> 7],
     DefaultRuleWeights}

InitRounding ==
    \E w \in RoundingWeightInputs :
        Start(NoHtml, <<>>, <<>>, <<>>, <<>>, <<>>, w, Unset)

NextRounding ==
    \/ \E n \in RiskTestNames, st \in Statuses :
          AddDeterministic(n, st, MaxRoundingItems)
    \/ \E sv \in Severities : AddCompliance("font_compliance", sv, MaxRoundingItems)
    \/ \E sv \in Severities : AddTone("spam_indicators", sv, MaxRoundingItems)
    \/ \E sv \in Severities :
          AddAccessibility("alt_text_quality", sv, MaxRoundingItems)
    \/ process_email

SpecRounding == InitRounding /\ [][NextRounding]_vars

\* C27: the score and the risk level of a risk result agree: the level is
\* high exactly when the returned score, rounded to two decimals, is at
\* least 80, and medium exactly when it is at least 50 and below 80.
C27_LevelMatchesReportedScore ==
    pc = "done" =>
        /\ risk_results.risk_level = "high" <=> risk_results.score >= 8000
        /\ risk_results.risk_level = "medium" <=>
              (risk_results.score >= 5000 /\ risk_results.score < 8000)

\* C27 witness: a passed result of weight 1, a failed one of weight 20, a
\* critical tone issue and a low accessibility issue of weight 7 each add
\* up to 38.0952... + 10.5 + 1.4 = 49.9952...: the level is low and the
\* returned score is 50.00.
C27_Witness ==
    /\ pc = "done"
    /\ ItemsTotal = 4
    /\ risk_locals.deterministic_weighted = <<800, 21>>
    /\ risk_locals.tone_weighted = <<21, 2>>
    /\ risk_locals.accessibility_weighted = <<7, 5>>
    /\ FracLess(risk_locals.normalized_score, <<50, 1>>)
    /\ risk_results.score = 5000
    /\ risk_results.risk_level = "low"

(***************************************************************************)
(* SpecIssues: the aggregator on up to MaxIssueItems results and issues,   *)
(* and the score when one more issue is found.                             *)
(***************************************************************************)
MaxIssueItems == 3

\* the built-in table (every rule of the issues at the unconfigured weight
\* 10, so that one issue brings raw_max to 1), or rows that set the three
\* rules to a weight below or above it
IssueWeightInputs ==
    {DefaultRuleWeights}
    \cup {[r \in {"font_compliance", "spam_indicators", "alt_text_quality"} |-> w] :
            w \in {3, 100}}

InitIssues ==
    \E w \in IssueWeightInputs :
        Start(NoHtml, <<>>, <<>>, <<>>, <<>>, <<>>, w, Unset)

NextIssues ==
    \/ \E st \in Statuses : AddDeterministic("alt_text", st, MaxIssueItems)
    \/ \E sv \in SeverityInputs : AddCompliance("font_compliance", sv, MaxIssueItems)
    \/ \E sv \in SeverityInputs : AddTone("spam_indicators", sv, MaxIssueItems)
    \/ \E sv \in SeverityInputs :
          AddAccessibility("alt_text_quality", sv, MaxIssueItems)
    \/ process_email

SpecIssues == InitIssues /\ [][NextIssues]_vars

\* the rule the issues of a category carry in the inputs of SpecIssues
RuleOf == [compliance |-> "font_compliance", tone |-> "spam_indicators",
           accessibility |-> "alt_text_quality"]

CeilingOf == [compliance |-> ComplianceCeiling, tone |-> ToneCeiling,
              accessibility |-> AccessibilityCeiling]

\* all_agent_results with one more issue of the severity in the category
WithIssue(category, severity) ==
    [all_agent_results EXCEPT ![category] =
        AgentResult(category,
            Append(IssuesOf(all_agent_results[category]),
                   Issue(RuleOf[category], "one more", severity)))]

\* C28 (as amended): one more issue in the compliance, tone or accessibility
\* list never lowers the score when the issue is critical or when the
\* category's raw_max is at most 1 with it; in general the contribution of
\* the category with the issue is at least the smaller of the contribution
\* before and ceiling x (the issue's severity weight / 10), and the other
\* three contributions do not change.
C28_ScoreWithOneMoreIssue ==
    pc = "done" =>
        \A c \in {"compliance", "tone", "accessibility"}, sv \in SeverityInputs :
            LET more   == WithIssue(c, sv)
                after  == calculate_risk(more, rule_weights)
                now    == calculate_risk_locals(more, rule_weights)
                before == risk_results.breakdown[c].score
                alone  == CeilingOf[c] * 10 * Get(severity_weights, sv, 3)
            IN  /\ (sv = "critical" \/ issues_max(more[c], rule_weights) <= 100) =>
                      /\ after.score >= risk_results.score
                      /\ after.breakdown[c].score >= before
                /\ after.breakdown[c].score >= Min(before, alone)
                /\ \A o \in DOMAIN after.breakdown :
                      o # c => after.breakdown[o] = risk_results.breakdown[o]
                /\ now.deterministic_weighted = risk_locals.deterministic_weighted

\* C28 witness: one critical compliance issue under the unconfigured weight
\* 10 scores 25; with a low issue added the score is 13.75.
C28_Witness ==
    /\ pc = "done"
    /\ ItemsTotal = 1
    /\ rule_weights = DefaultRuleWeights
    /\ Len(IssuesOf(compliance_results)) = 1
    /\ IssuesOf(compliance_results)[1].severity = "critical"
    /\ risk_results.score = 2500
    /\ calculate_risk(WithIssue("compliance", "low"), rule_weights).score = 1375
    /\ calculate_risk(WithIssue("compliance", "critical"), rule_weights).score = 2500

\* C28 as stated: one more issue of any severity in the compliance, tone or
\* accessibility list never lowers the score calculate_risk returns.
C28_AsStated ==
    pc = "done" =>
        \A c \in {"compliance", "tone", "accessibility"}, sv \in SeverityInputs :
            calculate_risk(WithIssue(c, sv), rule_weights).score >= risk_results.score

(***************************************************************************)
(* SpecBuiltin: one request through the built-in evaluators under rule     *)
(* tables that weigh the identifiers the evaluators emit.                  *)
(***************************************************************************)
\* the metadata of a request: none, complete, or only a subject that holds
\* spam keywords
BuiltinMetadataInputs ==
    {<<>>, [k \in MetadataKeys |-> "Hello"], [subject |-> "FREE!!! ACT NOW"],
     [subject |-> "free gift"]}

\* the identifiers whose findings weigh most on a mail without markup: the
\* checks such a mail fails, the medium compliance rules, the spam rule and
\* the semantic rule
HeavyNames ==
    {"preheader", "template_meta", "width", "background_color",
     "font_compliance", "cta_color_compliance", "logo_placement",
     "spam_indicators", "semantic_html"}

\* the rule table: the seeded rows, or a row for every identifier of the
\* evaluators, all at one weight or the heavy ones at 100 and the rest at 0
BuiltinStoreInputs ==
    {DefaultStore}
    \cup {[readable |-> TRUE, rules |-> [n \in EmittableNames |-> w]] :
            w \in {0, 1, 100}}
    \cup {[readable |-> TRUE,
           rules |-> [n \in EmittableNames |->
                        IF n \in HeavyNames THEN 100 ELSE 0]]}

InitBuiltin ==
    \E html \in DocumentInputs, meta \in BuiltinMetadataInputs,
       store \in BuiltinStoreInputs :
        Boot(html, meta, store, AbsentSource)

NextBuiltin ==
    \/ construct
    \/ run_qa(MaxRequests)
    \/ run_deterministic
    \/ run_compliance
    \/ run_tone
    \/ run_accessibility
    \/ consolidate

SpecBuiltin == InitBuiltin /\ [][NextBuiltin]_vars

\* the severities of the issues of a category
SeveritiesIn(category) ==
    {HeuristicIssues[category][i].severity : i \in DOMAIN HeuristicIssues[category]}

\* C29: with the built-in evaluators and any rule weights, compliance
\* issues are medium or low and tone and accessibility issues high, medium
\* or low, so the contributions are at most 40, 7.5, 7.5 and 10 and the
\* risk score of every report is at most 65: the risk level is never high,
\* no compliance issue is critical, and overall_status is fail exactly when
\* more than 3 deterministic results fail.
C29_BuiltinScoreAtMost65 ==
    (pc = "done" /\ raised = "none") =>
        LET report == reports[Len(reports)].agentic_analysis
        IN  /\ SeveritiesIn("compliance") \subseteq {"medium", "low"}
            /\ SeveritiesIn("tone") \subseteq {"high", "medium", "low"}
            /\ SeveritiesIn("accessibility") \subseteq {"high", "medium", "low"}
            /\ report.score_breakdown.deterministic.score <= 4000
            /\ report.score_breakdown.compliance.score <= 750
            /\ report.score_breakdown.tone.score <= 750
            /\ report.score_breakdown.accessibility.score <= 1000
            /\ report.risk_score <= 6500
            /\ report.risk_level \in {"low", "medium"}
            /\ ~CriticalCompliancePresent
            /\ report.overall_status = "fail" <=> FailedCount > 3
            /\ reports[Len(reports)].overall_status = "fail" <=> FailedCount > 3

\* a mail without markup, four heavy checks failed and every heavy rule
\* broken: contributions 40, 7.5, 7.5 and 6, level medium, status fail
C29_Witness ==
    /\ pc = "done"
    /\ raised = "none"
    /\ FailedCount > 3
    /\ risk_results.breakdown.deterministic.score = 4000
    /\ risk_results.breakdown.compliance.score = 750
    /\ risk_results.breakdown.tone.score = 750
    /\ risk_results.score > 6000
    /\ risk_results.risk_level = "medium"
    /\ overall_status = "fail"

\* a report with at most 3 failed checks: the status is not fail
C29_WitnessPass ==
    /\ pc = "done"
    /\ raised = "none"
    /\ FailedCount <= 3
    /\ HeuristicIssues["compliance"] # <<>>
    /\ overall_status # "fail"

(***************************************************************************)
(* One severity outside the table, three consumers.                        *)
(***************************************************************************)
\* some entry whose field is one of first stands before one whose field is
\* one of second
OrderedBefore(entries, field, first, second) ==
    \E i, j \in DOMAIN entries :
        /\ i < j
        /\ entries[i][field] \in first
        /\ entries[j][field] \in second

\* C30: an issue with an unrecognized severity is ranked as medium by
\* every consumer: the aggregator scores it with the medium weight 3, no
\* low-priority fix suggestion precedes its suggestion and its suggestion
\* precedes no critical or high one, and in top_issues no low-severity
\* entry precedes it, it precedes no critical or high entry, and it is not
\* left out of the ten while a low-severity candidate is kept.
C30_UnrecognizedRankedAsMedium ==
    (pc = "done" /\ raised = "none") =>
        /\ \A u \in Unrecognized :
              issue_item_score(HeuristicIssues[u[1]][u[2]], rule_weights) =
                  3 * Get(rule_weights, HeuristicIssues[u[1]][u[2]].rule,
                          HeuristicDefaultWeight)
        /\ ~OrderedBefore(fix_suggestions, "priority", {"low"},
                          SeverityInputs \ Severities)
        /\ ~OrderedBefore(fix_suggestions, "priority",
                          SeverityInputs \ Severities, {"critical", "high"})
        /\ ~OrderedBefore(top_issues, "severity", {"low"},
                          SeverityInputs \ Severities)
        /\ ~OrderedBefore(top_issues, "severity",
                          SeverityInputs \ Severities, {"critical", "high"})
        /\ \A c \in Candidates :
              (/\ c[3] \notin Severities
               /\ \A i \in DOMAIN top_issues :
                     <<top_issues[i].type, top_issues[i].details>> # <<c[1], c[2]>>)
              => \A i \in DOMAIN top_issues : top_issues[i].severity # "low"

\* a compliance issue of severity info and a tone issue of severity low:
\* the fix suggestions keep the order of collection, info before low, and
\* top_issues lists the low issue first
C30_Witness ==
    /\ pc = "done"
    /\ raised = "none"
    /\ FailedCount = 0
    /\ Unrecognized = {<<"compliance", 1>>}
    /\ Len(IssuesOf(tone_results)) = 1
    /\ IssuesOf(tone_results)[1].severity = "low"
    /\ IssuesOf(accessibility_results) = <<>>
    /\ Len(fix_suggestions) = 2
    /\ fix_suggestions[1].type = "compliance"
    /\ fix_suggestions[2].priority = "low"
    /\ Len(top_issues) = 2
    /\ top_issues[1].type = "tone"
    /\ top_issues[1].severity = "low"
    /\ top_issues[2].type = "compliance"
    /\ top_issues[2].severity \notin Severities

\* what the two sorted lists and the aggregator do agree on
C30_FixesAndScoreAsMedium ==
    (pc = "done" /\ raised = "none") =>
        /\ \A u \in Unrecognized :
              issue_item_score(HeuristicIssues[u[1]][u[2]], rule_weights) =
                  3 * Get(rule_weights, HeuristicIssues[u[1]][u[2]].rule,
                          HeuristicDefaultWeight)
        /\ ~OrderedBefore(fix_suggestions, "priority", {"low"},
                          SeverityInputs \ Severities)
        /\ ~OrderedBefore(fix_suggestions, "priority",
                          SeverityInputs \ Severities, {"critical", "high"})
        /\ ~OrderedBefore(top_issues, "severity",
                          SeverityInputs \ Severities,
                          {"critical", "high", "medium", "low"})

====
